---- MODULE Spec2Model ----
(***************************************************************************)
(* A model of the perf-event sampler: the ring buffer consumer             *)
(* (Sampler::next_record, Drop for Record), the ByteBuffer cursor over one *)
(* or two borrowed spans, and the record parsers that read from it.        *)
(*                                                                         *)
(* A borrowed byte slice (&[u8]) is modelled as a reference [off, len]     *)
(* into a memory (the ring's data region, or a test memory), never as a    *)
(* copy: what a slice shows is what the memory holds when it is read.      *)
(***************************************************************************)
EXTENDS Integers, Sequences, FiniteSets, TLC

VARIABLES
    ring,       \* the data region of the mapping: [0..DataSize-1 -> byte]
    data_head,  \* perf_event_mmap_page.data_head (written by the kernel)
    data_tail,  \* perf_event_mmap_page.data_tail (written by the consumer)
    rec,        \* the outstanding Record of the sampler, or NoRecord
    result,     \* outcome of the last next_record call
    lastOp,     \* the operation that made the last step
    stream,     \* history: every byte the kernel wrote, by absolute offset
    released,   \* history: sum of the header.size of all dropped Records
    forgotten,  \* history: the Record leaked by the last mem::forget
    decoded,    \* outcome of decoding the outstanding Record, if any
    lastDrop,   \* history: decode outcome of the Record dropped last
    mem,        \* memory under the two cursors of the ByteBuffer harness
    bufS,       \* harness: the cursor over one contiguous span
    bufP,       \* harness: the cursor over two spans
    outS,       \* harness: bytes the last operation copied out of bufS
    outP,       \* harness: bytes the last operation copied out of bufP
    resS,       \* harness: outcome of the last operation on bufS
    resP,       \* harness: outcome of the last operation on bufP
    prevP,      \* harness: bufP before the last operation
    bufOp,      \* harness: the last operation and its argument
    sCfg,       \* sample parsing: the ParseConfig
    sKern,      \* sample parsing: what the kernel chose to emit
    sPay,       \* sample parsing: the payload bytes of the record
    sOut,       \* sample parsing: what Sample::parse returned, or NoSample
    rCfg,       \* record parsing: the ParseConfig
    rHdr,       \* record parsing: the perf_event_header of the record
    rKern,      \* record parsing: what the kernel chose to emit
    rPay,       \* record parsing: the payload bytes after the header
    rOut,       \* record parsing: what Record::parse returned, or NoRecord
    nbPc,       \* next_blocking: "idle", or "poll" while blocked in poll
    nbDeadline, \* next_blocking: the deadline of the call, an Option
    elapsed,    \* next_blocking: its last reading of the clock, in ms since the call
    exited,     \* the observed process has exited
    nbRet,      \* what the last next_blocking call returned
    returned,   \* history: offsets of the records next_blocking returned
    pgLock,     \* perf_event_mmap_page.lock
    pg,         \* the page's fields read by read_user
    kPc,        \* the kernel's position in its update of the page
    kGen,       \* history: the number of the kernel's last update
    uPc,        \* read_user: the load it makes next, or "idle"
    uData,      \* read_user: the PmcReadData of the attempt
    uRet,       \* what the last read_user call returned
    uTrace,     \* history: the loads of the attempt, in order
    uAttempts,  \* history: the attempts the read_user call has begun
    cur,        \* a parser's ByteBuffer over the outstanding Record
    curOp,      \* the last operation on cur and its argument
    gData,      \* GroupData.data: the words of one read of a group
    gFormat,    \* GroupData.read_format
    call        \* the last accessor called on a decoded value, its result

ringVars == <<ring, data_head, data_tail, rec, result, lastOp, stream,
              released, forgotten, decoded, lastDrop>>
bufVars == <<mem, bufS, bufP, outS, outP, resS, resP, prevP, bufOp>>
sampleVars == <<sCfg, sKern, sPay, sOut>>
recordVars == <<rCfg, rHdr, rKern, rPay, rOut>>
waitVars == <<nbPc, nbDeadline, elapsed, exited, nbRet, returned>>
userVars == <<pgLock, pg, kPc, kGen, uPc, uData, uRet, uTrace, uAttempts>>
cursorVars == <<cur, curOp>>
callVars == <<gData, gFormat, call>>
extraVars == <<userVars, cursorVars, callVars>>
vars == <<ringVars, bufVars, sampleVars, recordVars, waitVars, extraVars>>

(***************************************************************************)
(* Bounds of the model.                                                    *)
(***************************************************************************)
\* Size in bytes of the ring's data region (page.data_size).
DataSize == 32
\* The kernel stops writing once data_head would pass this.
MaxHead == 72
\* Longest byte sequence given to the ByteBuffer harness.
MaxLen == 5

\* size_of::<perf_event_header>()
HeaderSize == 8

Min(a, b) == IF a < b THEN a ELSE b

\* Option
None == [some |-> FALSE]
Some(x) == [some |-> TRUE, val |-> x]

\* The outcome of a call that panicked.
Panic == [panic |-> TRUE]

(***************************************************************************)
(* Slices and ByteBuffer.                                                  *)
(***************************************************************************)
Slice(o, n) == [off |-> o, len |-> n]
\* &s[..n]
SliceTo(s, n) == [off |-> s.off, len |-> n]
\* &s[n..]
SliceFrom(s, n) == [off |-> s.off + n, len |-> s.len - n]
\* The bytes a slice shows in memory m.
Bytes(m, s) == [i \in 1..s.len |-> m[s.off + i - 1]]

Single(s) == <<"Single", s>>
Split(a, b) == <<"Split", a, b>>
IsSingle(buf) == buf[1] = "Single"

\* ByteBuffer::len
BufLen(buf) ==
    IF IsSingle(buf) THEN buf[2].len ELSE buf[2].len + buf[3].len

\* Record::to_contiguous: the bytes of the buffer, first span then second.
BufBytes(m, buf) ==
    IF IsSingle(buf) THEN Bytes(m, buf[2])
    ELSE Bytes(m, buf[2]) \o Bytes(m, buf[3])

\* ByteBuffer::truncate: the assertion, then the new buffer.
TruncateOk(buf, new_len) == new_len >= 0 /\ new_len <= BufLen(buf)

Truncate(buf, new_len) ==
    IF IsSingle(buf) THEN Single(SliceTo(buf[2], new_len))
    ELSE IF new_len <= buf[2].len
         THEN Single(SliceTo(buf[2], new_len))
         ELSE Split(buf[2], SliceTo(buf[3], new_len - buf[2].len))

\* ByteBuffer::copy_to_slice for a destination of n bytes: the assertion,
\* the buffer it leaves, and the bytes written to the destination.
CopyOk(buf, n) == BufLen(buf) >= n

\* CopyRest keeping two spans only while the first span has bytes left.
CopyRestStrict(buf, n) ==
    IF buf[1] = "Single"
    THEN <<"Single", [off |-> buf[2].off + n, len |-> buf[2].len - n]>>
    ELSE IF buf[2].len > n
         THEN <<"Split", [off |-> buf[2].off + n, len |-> buf[2].len - n], buf[3]>>
         ELSE <<"Single", [off |-> buf[3].off + (n - buf[2].len),
                           len |-> buf[3].len - (n - buf[2].len)]>>

CopyRest(buf, n) ==
    IF IsSingle(buf) THEN Single(SliceFrom(buf[2], n))
    ELSE IF buf[2].len >= n
         THEN Split(SliceFrom(buf[2], n), buf[3])
         ELSE Single(SliceFrom(buf[3], n - buf[2].len))

CopyOut(m, buf, n) ==
    IF IsSingle(buf) THEN Bytes(m, SliceTo(buf[2], n))
    ELSE IF buf[2].len >= n
         THEN Bytes(m, SliceTo(buf[2], n))
         ELSE Bytes(m, buf[2]) \o Bytes(m, SliceTo(buf[3], n - buf[2].len))

\* ParseBuf::chunk: end-of-data, or the slice it returns.
ChunkIsEof(buf) == IsSingle(buf) /\ buf[2].len = 0

Chunk(buf) == buf[2]

\* ParseBuf::advance: the slice bounds check, then the new buffer.
AdvanceOk(buf, count) ==
    IF IsSingle(buf) THEN count <= buf[2].len
    ELSE IF count < buf[2].len THEN TRUE
         ELSE count - buf[2].len <= buf[3].len

Advance(buf, count) ==
    IF IsSingle(buf) THEN Single(SliceFrom(buf[2], count))
    ELSE IF count < buf[2].len
         THEN Split(SliceFrom(buf[2], count), buf[3])
         ELSE Single(SliceFrom(buf[3], count - buf[2].len))

(***************************************************************************)
(* The record header: type (u32), misc (u16), size (u16), as the kernel    *)
(* lays it out in memory on a little-endian host.                          *)
(***************************************************************************)
HeaderBytes(ty, misc, size) ==
    << ty % 256, (ty \div 256) % 256, (ty \div 65536) % 256, ty \div 16777216,
       misc % 256, misc \div 256, size % 256, size \div 256 >>

\* ByteBuffer::parse_header: the transmute of the 8 copied bytes.
HeaderOf(b) ==
    [ type |-> b[1] + 256 * b[2] + 65536 * b[3] + 16777216 * b[4],
      misc |-> b[5] + 256 * b[6],
      size |-> b[7] + 256 * b[8] ]

(***************************************************************************)
(* Sampler::next_record.                                                   *)
(***************************************************************************)
NoRecord == [kind |-> "none"]

\* Record::len
RecordLen(r) == BufLen(r.data)

\* The outstanding Record was not given to a decoder.
NotDecoded == [kind |-> "none", read |-> 0]

\* Window with the comparison of the two offsets made non-strict.
WindowNonStrict(tail, head) ==
    LET mod_tail == tail % DataSize
        mod_head == head % DataSize
    IN  IF mod_head >= mod_tail
        THEN <<"Single", [off |-> mod_tail, len |-> mod_head - mod_tail]>>
        ELSE <<"Split", [off |-> mod_tail, len |-> DataSize - mod_tail],
                        [off |-> 0, len |-> mod_head]>>

\* The one span or two spans built from data_tail and data_head.
Window(tail, head) ==
    LET mod_tail == tail % DataSize
        mod_head == head % DataSize
    IN  IF mod_head > mod_tail
        THEN Single(Slice(mod_tail, mod_head - mod_tail))
        ELSE Split(Slice(mod_tail, DataSize - mod_tail), Slice(0, mod_head))

\* TruncLen without the subtraction of the header size.
TruncLenWhole(size) == size

\* The length the window is truncated to.
TruncLen(size) == size - HeaderSize

\* next_record with the header-size assertion replaced by a clamp: a header
\* that declares less than 8 bytes yields a Record with an empty payload.
NextRecordOfClamped(m, tail, head) ==
    IF tail = head THEN [kind |-> "none"]
    ELSE LET buffer == Window(tail, head) IN
         IF ~CopyOk(buffer, HeaderSize) THEN [kind |-> "panic"]
         ELSE LET header == HeaderOf(CopyOut(m, buffer, HeaderSize))
                  rest == CopyRest(buffer, HeaderSize)
                  n == IF header.size >= HeaderSize
                       THEN TruncLen(header.size) ELSE 0
              IN  IF ~TruncateOk(rest, n) THEN [kind |-> "panic"]
                  ELSE [kind |-> "record", header |-> header,
                        data |-> Truncate(rest, n)]

\* What next_record returns for the page fields tail and head over memory m:
\* None, a panic (a failed assertion), or a Record.
NextRecordOf(m, tail, head) ==
    IF tail = head THEN [kind |-> "none"]
    ELSE LET buffer == Window(tail, head) IN
         IF ~CopyOk(buffer, HeaderSize) THEN [kind |-> "panic"]
         ELSE LET header == HeaderOf(CopyOut(m, buffer, HeaderSize))
                  rest == CopyRest(buffer, HeaderSize)
              IN  IF ~(header.size >= HeaderSize) THEN [kind |-> "panic"]
                  ELSE IF ~TruncateOk(rest, TruncLen(header.size))
                       THEN [kind |-> "panic"]
                       ELSE [kind |-> "record",
                             header |-> header,
                             data |-> Truncate(rest, TruncLen(header.size))]

\* DropTail advancing by the length of the payload view.
DropTailPayload(tail, r) == tail + BufLen(r.data)

\* The value stored to data_tail when a Record is dropped.
DropTail(tail, r) == tail + r.header.size

(***************************************************************************)
(* The kernel, producer of the ring: it writes whole records into the      *)
(* free space beyond data_head, never past data_tail + data_size, and      *)
(* then publishes data_head.                                               *)
(***************************************************************************)
\* Record type the kernel writes here: PERF_RECORD_SAMPLE.
KernelTypes == {9}
\* Declared sizes of the well-formed records the kernel writes.
KernelSizes == {8, 11, 16}
\* A declared size below the header size (a protocol violation).
BadSizes == {5}

\* A payload byte depends on its absolute offset only, so that a byte read
\* at a wrong place is a different byte.
PayloadByte(abs) == (abs % 250) + 1

\* The bytes of a record written at absolute offset at: its header, then
\* n - 8 payload bytes.
RecordBytes(ty, misc, size, at, n) ==
    HeaderBytes(ty, misc, size)
        \o [i \in 1..(n - HeaderSize) |-> PayloadByte(at + HeaderSize + i - 1)]

\* The ring after the kernel wrote bytes bs at absolute offset at.
RingWrite(m, at, bs) ==
    [p \in 0..(DataSize - 1) |->
        IF \E i \in 1..Len(bs) : (at + i - 1) % DataSize = p
        THEN bs[CHOOSE i \in 1..Len(bs) : (at + i - 1) % DataSize = p]
        ELSE m[p]]

KernelWrite(ty, size, n) ==
    /\ data_head + n <= data_tail + DataSize
    /\ data_head + n <= MaxHead
    /\ LET bs == RecordBytes(ty, data_head % 251, size, data_head, n) IN
       /\ ring' = RingWrite(ring, data_head, bs)
       /\ stream' = stream \o bs
    /\ data_head' = data_head + n
    /\ UNCHANGED <<data_tail, rec, result, released, forgotten>>
    /\ UNCHANGED <<decoded, lastDrop>>

KernelAppend ==
    /\ \E ty \in KernelTypes, size \in KernelSizes : KernelWrite(ty, size, size)
    /\ lastOp' = "append"
    /\ UNCHANGED <<extraVars, bufVars, sampleVars, recordVars, waitVars>>

\* A header that declares less than its own size.
KernelAppendMalformed ==
    /\ \E ty \in KernelTypes, size \in BadSizes : KernelWrite(ty, size, HeaderSize)
    /\ lastOp' = "malformed"
    /\ UNCHANGED <<extraVars, bufVars, sampleVars, recordVars, waitVars>>

(***************************************************************************)
(* The consumer.  A Record borrows the sampler mutably, so next_record     *)
(* cannot be called while a Record is outstanding.                         *)
(***************************************************************************)
\* next_record releasing the record when it is returned, not on drop.
NextRecordEager ==
    /\ rec = NoRecord
    /\ LET r == NextRecordOf(ring, data_tail, data_head) IN
       /\ result' = r.kind
       /\ rec' = IF r.kind = "record" THEN r ELSE NoRecord
       /\ data_tail' = IF r.kind = "record"
                       THEN data_tail + r.header.size ELSE data_tail
    /\ lastOp' = "next"
    /\ UNCHANGED <<ring, data_head, stream, released, forgotten>>
    /\ UNCHANGED <<decoded, lastDrop>>
    /\ UNCHANGED <<extraVars, bufVars, sampleVars, recordVars, waitVars>>

NextRecord ==
    /\ rec = NoRecord
    /\ LET r == NextRecordOf(ring, data_tail, data_head) IN
       /\ result' = r.kind
       /\ rec' = IF r.kind = "record" THEN r ELSE NoRecord
    /\ lastOp' = "next"
    /\ UNCHANGED <<ring, data_head, data_tail, stream, released, forgotten>>
    /\ UNCHANGED <<decoded, lastDrop>>
    /\ UNCHANGED <<extraVars, bufVars, sampleVars, recordVars, waitVars>>

\* A drop that releases the header and the payload bytes the decoder read.
DropRecordByRead ==
    /\ rec # NoRecord
    /\ data_tail' = data_tail + HeaderSize + decoded.read
    /\ released' = released + rec.header.size
    /\ rec' = NoRecord
    /\ forgotten' = NoRecord
    /\ lastOp' = "drop"
    /\ lastDrop' = decoded
    /\ decoded' = NotDecoded
    /\ UNCHANGED <<ring, data_head, result, stream>>
    /\ UNCHANGED <<extraVars, bufVars, sampleVars, recordVars, waitVars>>

\* impl Drop for Record
DropRecord ==
    /\ rec # NoRecord
    /\ data_tail' = DropTail(data_tail, rec)
    /\ released' = released + rec.header.size
    /\ rec' = NoRecord
    /\ forgotten' = NoRecord
    /\ lastOp' = "drop"
    /\ lastDrop' = decoded
    /\ decoded' = NotDecoded
    /\ UNCHANGED <<ring, data_head, result, stream>>
    /\ UNCHANGED <<extraVars, bufVars, sampleVars, recordVars, waitVars>>

\* mem::forget that runs the destructor all the same.
ForgetRecordReleases ==
    /\ rec # NoRecord
    /\ forgotten' = [header |-> rec.header, bytes |-> BufBytes(ring, rec.data),
                     tail |-> data_tail, head |-> data_head]
    /\ data_tail' = DropTail(data_tail, rec)
    /\ rec' = NoRecord
    /\ lastOp' = "forget"
    /\ decoded' = NotDecoded
    /\ UNCHANGED <<ring, data_head, result, stream, released, lastDrop>>
    /\ UNCHANGED <<extraVars, bufVars, sampleVars, recordVars, waitVars>>

\* std::mem::forget(record): the Record goes away and its Drop never runs.
ForgetRecord ==
    /\ rec # NoRecord
    /\ forgotten' = [header |-> rec.header, bytes |-> BufBytes(ring, rec.data),
                     tail |-> data_tail, head |-> data_head]
    /\ rec' = NoRecord
    /\ lastOp' = "forget"
    /\ decoded' = NotDecoded
    /\ UNCHANGED <<ring, data_head, data_tail, result, stream, released, lastDrop>>
    /\ UNCHANGED <<extraVars, bufVars, sampleVars, recordVars, waitVars>>

BufIdle ==
    /\ mem = [p \in {} |-> 0]
    /\ bufS = Single(Slice(0, 0))
    /\ bufP = Single(Slice(0, 0))
    /\ outS = <<>>
    /\ outP = <<>>
    /\ resS = "ok"
    /\ resP = "ok"
    /\ prevP = Single(Slice(0, 0))
    /\ bufOp = <<"init", 0>>

NoSample == [kind |-> "none"]

SampleIdle ==
    /\ sCfg = [sample_type |-> {}]
    /\ sKern = [nr |-> 0]
    /\ sPay = <<>>
    /\ sOut = NoSample

RecordIdle ==
    /\ rCfg = [sample_type |-> {}]
    /\ rHdr = [type |-> 0, misc |-> 0, size |-> HeaderSize]
    /\ rKern = [nr |-> 0]
    /\ rPay = <<>>
    /\ rOut = NoRecord

(***************************************************************************)
(* The perf_event_mmap_page fields that read_user loads, and the values    *)
(* the kernel gives them in its g-th update of the page.  A fresh page is  *)
(* all zero; a counter that was just scheduled has run for no time yet.    *)
(***************************************************************************)
PageOf(g, caps) ==
    [capabilities |-> caps,
     time_enabled |-> 100 * g,
     time_running |-> IF g = 0 THEN 0 ELSE 100 * (g - 1),
     index |-> g % 3,
     offset |-> IF g = 0 THEN 0 ELSE 100 * g + 50]

\* A PmcReadData that has loaded nothing yet.
NoData ==
    [seq |-> 0, flags |-> {}, enabled |-> 0, running |-> 0, index |-> 0,
     count |-> 0, has_pmc_value |-> FALSE]

\* No read_user is in progress and the kernel has not touched the page.
UserIdle ==
    /\ pgLock = 0
    /\ pg = PageOf(0, {})
    /\ kPc = 0
    /\ kGen = 0
    /\ uPc = "idle"
    /\ uData = NoData
    /\ uRet = None
    /\ uTrace = <<>>
    /\ uAttempts = 0

\* No parser reads the outstanding Record.
CursorIdle ==
    /\ cur = Single(Slice(0, 0))
    /\ curOp = <<"init", 0>>

\* No accessor has been called.
NoCall == [fn |-> "none"]

CallIdle ==
    /\ gData = <<>>
    /\ gFormat = {}
    /\ call = NoCall

\* No next_blocking call has been made and the process is running.
WaitIdle ==
    /\ nbPc = "idle"
    /\ nbDeadline = None
    /\ elapsed = 0
    /\ exited = FALSE
    /\ nbRet = "init"
    /\ returned = <<>>

RingIdle ==
    /\ ring = [p \in 0..(DataSize - 1) |-> 0]
    /\ data_head = 0
    /\ data_tail = 0
    /\ rec = NoRecord
    /\ result = "none"
    /\ lastOp = "init"
    /\ stream = <<>>
    /\ released = 0
    /\ forgotten = NoRecord
    /\ decoded = NotDecoded
    /\ lastDrop = NotDecoded

Init ==
    /\ RingIdle
    /\ WaitIdle
    /\ UserIdle
    /\ CursorIdle
    /\ CallIdle
    /\ BufIdle
    /\ SampleIdle
    /\ RecordIdle

\* copy_to_slice as a whole: a failed assertion leaves the buffer as it is.
CopyToSlice(m, buf, n) ==
    IF CopyOk(buf, n)
    THEN [res |-> "ok", buf |-> CopyRest(buf, n), out |-> CopyOut(m, buf, n)]
    ELSE [res |-> "panic", buf |-> buf, out |-> <<>>]

\* truncate as a whole.
TruncateTo(buf, n) ==
    IF TruncateOk(buf, n)
    THEN [res |-> "ok", buf |-> Truncate(buf, n), out |-> <<>>]
    ELSE [res |-> "panic", buf |-> buf, out |-> <<>>]

\* chunk as a whole: Err(eof) on Single([]), otherwise Ok with the first
\* span, whatever its length; the buffer is left as it is.
ChunkRead(m, buf) ==
    IF ChunkIsEof(buf)
    THEN [res |-> "eof", buf |-> buf, out |-> <<>>]
    ELSE [res |-> "ok", buf |-> buf, out |-> Bytes(m, Chunk(buf))]

\* advance as a whole: advancing a slice past its end panics.
AdvanceBy(buf, count) ==
    IF AdvanceOk(buf, count)
    THEN [res |-> "ok", buf |-> Advance(buf, count), out |-> <<>>]
    ELSE [res |-> "panic", buf |-> buf, out |-> <<>>]

(***************************************************************************)
(* The ByteBuffer harness: the same byte sequence s behind two cursors,    *)
(* Single(s) and Split([s[..k], s[k..]]), and the same operations applied  *)
(* to both.  The memory holds s at 0..n-1 and, as in a ring that wrapped,  *)
(* s[k..] at n.. followed by s[..k].                                       *)
(***************************************************************************)
HarnessByte(i) == i + 1

HarnessMem(n, k) ==
    [p \in 0..(2 * n - 1) |->
        IF p < n THEN HarnessByte(p)
        ELSE IF p < 2 * n - k THEN HarnessByte(p - n + k)
        ELSE HarnessByte(p - (2 * n - k))]

InitBuf ==
    /\ RingIdle
    /\ WaitIdle
    /\ UserIdle
    /\ CursorIdle
    /\ CallIdle
    /\ SampleIdle
    /\ RecordIdle
    /\ \E n \in 0..MaxLen : \E k \in 0..n :
          /\ mem = HarnessMem(n, k)
          /\ bufS = Single(Slice(0, n))
          /\ bufP = Split(Slice(2 * n - k, k), Slice(n, n - k))
          /\ prevP = Split(Slice(2 * n - k, k), Slice(n, n - k))
    /\ outS = <<>>
    /\ outP = <<>>
    /\ resS = "ok"
    /\ resP = "ok"
    /\ bufOp = <<"init", 0>>

BufApply(op, n, rS, rP) ==
    /\ bufS' = rS.buf
    /\ outS' = rS.out
    /\ resS' = rS.res
    /\ bufP' = rP.buf
    /\ outP' = rP.out
    /\ resP' = rP.res
    /\ prevP' = bufP
    /\ bufOp' = <<op, n>>
    /\ UNCHANGED mem
    /\ UNCHANGED <<extraVars, ringVars, sampleVars, recordVars, waitVars>>

BufCopy ==
    \E n \in 0..(MaxLen + 1) :
        BufApply("copy", n, CopyToSlice(mem, bufS, n), CopyToSlice(mem, bufP, n))

BufTruncate ==
    \E n \in 0..(MaxLen + 1) :
        BufApply("truncate", n, TruncateTo(bufS, n), TruncateTo(bufP, n))

BufChunk ==
    BufApply("chunk", 0, ChunkRead(mem, bufS), ChunkRead(mem, bufP))

BufAdvance ==
    \E n \in 0..(MaxLen + 1) :
        BufApply("advance", n, AdvanceBy(bufS, n), AdvanceBy(bufP, n))

NextBuf ==
    \/ BufCopy
    \/ BufTruncate
    \/ BufChunk
    \/ BufAdvance

SpecBuf == InitBuf /\ [][NextBuf]_vars

(***************************************************************************)
(* Sample::parse (samples/sample.rs).  The parser reads from a bytes::Buf: *)
(* a byte sequence b and a read position pos.  A fixed-width read of more  *)
(* bytes than remain panics.  A u64 or u32 is kept as its bytes in memory  *)
(* order (the reads are native-endian); a u64 that is used as a length is  *)
(* converted to a number by AsUsize.                                       *)
(***************************************************************************)
\* Largest number of entries or blob bytes the kernel emits per field.
MaxCount == 2
\* Largest number of sample-type bits chosen freely in a mask.
MaxFields == 2

\* Option::or
OrElse(a, b) == IF a.some THEN a ELSE b

\* A length no buffer of the model can hold.
Huge == 1073741824
\* `buf.get_u64_ne() as usize` on a little-endian host.
AsUsize(w) ==
    IF \A j \in 3..8 : w[j] = 0 THEN w[1] + 256 * w[2] ELSE Huge

Take(b, pos, n) == SubSeq(b, pos + 1, pos + n)
\* n consecutive u64 read from pos.
Words(b, pos, n) == [k \in 1..n |-> Take(b, pos + 8 * (k - 1), 8)]
\* True when count items of unit bytes fit in avail bytes.
Fits(count, unit, avail) == count # Huge /\ count * unit <= avail

\* SampleType flags (samples/mod.rs)
SampleBits ==
    {"IP", "TID", "TIME", "ADDR", "READ", "CALLCHAIN", "ID", "CPU", "PERIOD",
     "STREAM_ID", "RAW", "BRANCH_STACK", "REGS_USER", "STACK_USER", "WEIGHT",
     "DATA_SRC", "IDENTIFIER", "TRANSACTION", "REGS_INTR", "PHYS_ADDR", "AUX",
     "CGROUP", "DATA_PAGE_SIZE", "CODE_PAGE_SIZE", "WEIGHT_STRUCT"}

\* The Sample with every field None.
EmptySample ==
    [sample_id |-> None, ip |-> None, pid |-> None, tid |-> None,
     time |-> None, addr |-> None, id |-> None, stream_id |-> None,
     cpu |-> None, period |-> None, value |-> None, callchain |-> None,
     raw |-> None, lbr |-> None, lbr_hw_index |-> None, regs_user |-> None,
     stack_user |-> None, weight |-> None, data_src |-> None,
     transaction |-> None, regs_intr |-> None, phys_addr |-> None,
     aux |-> None, cgroup |-> None, data_page_size |-> None,
     code_page_size |-> None]

\* The result of a sub-parser: it failed, or it read n bytes and made val.
Panicked == [ok |-> FALSE, n |-> 0, val |-> None]
Parsed(n, val) == [ok |-> TRUE, n |-> n, val |-> val]

\* CounterValue::parse
CounterValueParse(rf, b, pos) ==
    LET te == "TOTAL_TIME_ENABLED" \in rf
        tr == "TOTAL_TIME_RUNNING" \in rf
        id == "ID" \in rf
        oTe == pos + 8
        oTr == oTe + (IF te THEN 8 ELSE 0)
        oId == oTr + (IF tr THEN 8 ELSE 0)
        n == (oId + (IF id THEN 8 ELSE 0)) - pos
    IN  IF Len(b) - pos < n THEN Panicked
        ELSE Parsed(n, [kind |-> "Counter",
                        value |-> Take(b, pos, 8),
                        time_enabled |->
                            IF te THEN Some(Take(b, oTe, 8)) ELSE None,
                        time_running |->
                            IF tr THEN Some(Take(b, oTr, 8)) ELSE None,
                        id |-> IF id THEN Some(Take(b, oId, 8)) ELSE None])

\* GroupValueEntry::parse, for the entry that starts at pos.
GroupValueEntryParse(rf, b, pos) ==
    [value |-> Take(b, pos, 8),
     id |-> IF "ID" \in rf THEN Some(Take(b, pos + 8, 8)) ELSE None]

\* GroupValue::parse
GroupValueParse(rf, b, pos) ==
    LET te == "TOTAL_TIME_ENABLED" \in rf
        tr == "TOTAL_TIME_RUNNING" \in rf
        entry == IF "ID" \in rf THEN 16 ELSE 8
        oTe == pos + 8
        oTr == oTe + (IF te THEN 8 ELSE 0)
        oVal == oTr + (IF tr THEN 8 ELSE 0)
    IN  IF Len(b) - pos < 8 THEN Panicked
        ELSE LET len == AsUsize(Take(b, pos, 8)) IN
             IF Len(b) < oVal \/ ~Fits(len, entry, Len(b) - oVal) THEN Panicked
             ELSE Parsed((oVal - pos) + len * entry,
                         [kind |-> "Group",
                          time_enabled |->
                              IF te THEN Some(Take(b, oTe, 8)) ELSE None,
                          time_running |->
                              IF tr THEN Some(Take(b, oTr, 8)) ELSE None,
                          values |->
                              [k \in 1..len |->
                                  GroupValueEntryParse(
                                      rf, b, oVal + entry * (k - 1))]])

\* ReadValue::parse
ReadValueParse(rf, b, pos) ==
    IF "GROUP" \in rf THEN GroupValueParse(rf, b, pos)
    ELSE CounterValueParse(rf, b, pos)

\* SampleRegsAbi::NONE
AbiNone == <<0, 0, 0, 0, 0, 0, 0, 0>>

\* parse_regs without the ABI test.
ParseRegsAnyAbi(mask, b, pos) ==
    IF Len(b) - pos < 8 THEN Panicked
    ELSE LET abi == Take(b, pos, 8)
             count == Cardinality(mask)
         IN  IF Len(b) - (pos + 8) < 8 * count THEN Panicked
             ELSE Parsed(8 + 8 * count,
                         [abi |-> abi, mask |-> mask,
                          regs |-> Words(b, pos + 8, count)])

\* The register accessors (decl_reg_accessors): the register of bit `bit`
\* is at the index that counts the set bits of the mask below it.
RegGet(r, bit) ==
    IF bit \in r.mask
    THEN Some(r.regs[Cardinality({m \in r.mask : m < bit}) + 1])
    ELSE None

\* Registers::parse_regs; a register mask is the set of its set bits.
ParseRegs(mask, b, pos) ==
    IF Len(b) - pos < 8 THEN Panicked
    ELSE LET abi == Take(b, pos, 8)
             m == IF abi = AbiNone THEN {} ELSE mask
             count == Cardinality(m)
         IN  IF Len(b) - (pos + 8) < 8 * count THEN Panicked
             ELSE Parsed(8 + 8 * count,
                         [abi |-> abi, mask |-> m,
                          regs |-> Words(b, pos + 8, count)])

\* A length-prefixed blob: `get_u64_ne() as usize`, then parse_vec(len).
ParseBlob(b, pos) ==
    IF Len(b) - pos < 8 THEN Panicked
    ELSE LET len == AsUsize(Take(b, pos, 8)) IN
         IF ~Fits(len, 1, Len(b) - (pos + 8)) THEN Panicked
         ELSE Parsed(8 + len, Take(b, pos + 8, len))

\* The callchain closure: a count, then count u64.
ParseCallchain(b, pos) ==
    IF Len(b) - pos < 8 THEN Panicked
    ELSE LET len == AsUsize(Take(b, pos, 8)) IN
         IF ~Fits(len, 8, Len(b) - (pos + 8)) THEN Panicked
         ELSE Parsed(8 + 8 * len, Words(b, pos + 8, len))

\* size_of::<perf_branch_entry>()
BranchEntrySize == 24

\* The STACK_USER closure reading the dynamic size whatever len is.
ParseStackUserAlwaysDyn(b, pos) ==
    LET blob == ParseBlob(b, pos) IN
    IF ~blob.ok THEN Panicked
    ELSE IF Len(b) - (pos + blob.n) < 8 THEN Panicked
    ELSE LET dyn_len == AsUsize(Take(b, pos + blob.n, 8)) IN
         Parsed(blob.n + 8,
                SubSeq(blob.val, 1, Min(Len(blob.val), dyn_len)))

\* The BRANCH_STACK arm: a count, the hw index if configured, the entries.
ParseBranchStack(bst, b, pos) ==
    LET hw == "HW_INDEX" \in bst
        oEnt == pos + 8 + (IF hw THEN 8 ELSE 0)
    IN  IF Len(b) - pos < 8 THEN Panicked
        ELSE LET len == AsUsize(Take(b, pos, 8)) IN
             IF Len(b) < oEnt \/ ~Fits(len, BranchEntrySize, Len(b) - oEnt)
             THEN Panicked
             ELSE Parsed((oEnt - pos) + BranchEntrySize * len,
                         [lbr |-> [k \in 1..len |->
                                      Take(b, oEnt + BranchEntrySize * (k - 1),
                                           BranchEntrySize)],
                          hw_index |->
                              IF hw THEN Some(Take(b, pos + 8, 8)) ELSE None])

\* The STACK_USER closure: the blob, then the dynamic size if len != 0.
ParseStackUser(b, pos) ==
    LET blob == ParseBlob(b, pos) IN
    IF ~blob.ok THEN Panicked
    ELSE IF Len(blob.val) = 0 THEN Parsed(blob.n, blob.val)
    ELSE IF Len(b) - (pos + blob.n) < 8 THEN Panicked
    ELSE LET dyn_len == AsUsize(Take(b, pos + blob.n, 8)) IN
         Parsed(blob.n + 8,
                SubSeq(blob.val, 1, Min(Len(blob.val), dyn_len)))

\* The order of the fields of struct Sample (aux before cgroup).
SampleOrderStruct ==
    <<"IDENTIFIER", "IP", "TID", "TIME", "ADDR", "ID", "STREAM_ID", "CPU",
      "PERIOD", "READ", "CALLCHAIN", "RAW", "BRANCH_STACK", "REGS_USER",
      "STACK_USER", "WEIGHT", "DATA_SRC", "TRANSACTION", "REGS_INTR",
      "PHYS_ADDR", "AUX", "CGROUP", "DATA_PAGE_SIZE", "CODE_PAGE_SIZE">>

\* The reads of Sample::parse, in the order the function makes them.
SampleOrder ==
    <<"IDENTIFIER", "IP", "TID", "TIME", "ADDR", "ID", "STREAM_ID", "CPU",
      "PERIOD", "READ", "CALLCHAIN", "RAW", "BRANCH_STACK", "REGS_USER",
      "STACK_USER", "WEIGHT", "DATA_SRC", "TRANSACTION", "REGS_INTR",
      "PHYS_ADDR", "CGROUP", "DATA_PAGE_SIZE", "CODE_PAGE_SIZE", "AUX">>

\* The condition under which each read is made.
StepEnabled(name, sty) ==
    IF name = "WEIGHT" THEN "WEIGHT" \in sty \/ "WEIGHT_STRUCT" \in sty
    ELSE name \in sty

\* The reads that are one get_u64_ne, and the local each one fills.
U64Field ==
    [IDENTIFIER |-> "sample_id", IP |-> "ip", TIME |-> "time",
     ADDR |-> "addr", ID |-> "id", STREAM_ID |-> "stream_id",
     PERIOD |-> "period", WEIGHT |-> "weight", DATA_SRC |-> "data_src",
     TRANSACTION |-> "transaction", PHYS_ADDR |-> "phys_addr",
     CGROUP |-> "cgroup", DATA_PAGE_SIZE |-> "data_page_size",
     CODE_PAGE_SIZE |-> "code_page_size"]

\* The sub-parser of a read that is not one get_u64_ne.
SubParse(name, cfg, b, pos) ==
    CASE name = "READ" -> ReadValueParse(cfg.read_format, b, pos)
      [] name = "CALLCHAIN" -> ParseCallchain(b, pos)
      [] name = "RAW" -> ParseBlob(b, pos)
      [] name = "BRANCH_STACK" ->
            ParseBranchStack(cfg.branch_sample_type, b, pos)
      [] name = "REGS_USER" -> ParseRegs(cfg.regs_user, b, pos)
      [] name = "STACK_USER" -> ParseStackUser(b, pos)
      [] name = "REGS_INTR" -> ParseRegs(cfg.regs_intr, b, pos)
      [] name = "AUX" -> ParseBlob(b, pos)

\* The local a sub-parser fills.
SubField ==
    [READ |-> "value", CALLCHAIN |-> "callchain", RAW |-> "raw",
     REGS_USER |-> "regs_user", STACK_USER |-> "stack_user",
     REGS_INTR |-> "regs_intr", AUX |-> "aux"]

\* One read of Sample::parse from the state st = [pos, ok, s].
SampleStep(name, cfg, b, st) ==
    LET pos == st.pos
        avail == Len(b) - st.pos
        Failed == [st EXCEPT !.ok = FALSE]
    IN
    IF ~st.ok \/ ~StepEnabled(name, cfg.sample_type) THEN st
    ELSE IF name \in DOMAIN U64Field THEN
        IF avail < 8 THEN Failed
        ELSE [pos |-> pos + 8, ok |-> TRUE,
              s |-> [st.s EXCEPT ![U64Field[name]] = Some(Take(b, pos, 8))]]
    ELSE IF name = "TID" THEN
        IF avail < 8 THEN Failed
        ELSE [pos |-> pos + 8, ok |-> TRUE,
              s |-> [st.s EXCEPT !.pid = Some(Take(b, pos, 4)),
                                 !.tid = Some(Take(b, pos + 4, 4))]]
    ELSE IF name = "CPU" THEN
        IF avail < 8 THEN Failed
        ELSE [pos |-> pos + 8, ok |-> TRUE,
              s |-> [st.s EXCEPT !.cpu = Some(Take(b, pos, 4))]]
    ELSE LET r == SubParse(name, cfg, b, pos) IN
        IF ~r.ok THEN Failed
        ELSE IF name = "BRANCH_STACK" THEN
            [pos |-> pos + r.n, ok |-> TRUE,
             s |-> [st.s EXCEPT !.lbr = Some(r.val.lbr),
                                !.lbr_hw_index = r.val.hw_index]]
        ELSE [pos |-> pos + r.n, ok |-> TRUE,
              s |-> [st.s EXCEPT ![SubField[name]] = Some(r.val)]]

RECURSIVE SampleSteps(_, _, _, _)
SampleSteps(cfg, b, i, st) ==
    IF i > Len(SampleOrder) THEN st
    ELSE SampleSteps(cfg, b, i + 1, SampleStep(SampleOrder[i], cfg, b, st))

\* Sample::parse: the reads, then the struct literal.
SampleParse(cfg, b) ==
    LET st == SampleSteps(cfg, b, 1, [pos |-> 0, ok |-> TRUE, s |-> EmptySample])
        s == st.s
    IN  IF ~st.ok THEN [kind |-> "panic"]
        ELSE [kind |-> "sample",
              sample |->
                [ip |-> s.ip, pid |-> s.pid, tid |-> s.tid, time |-> s.time,
                 addr |-> s.addr, id |-> OrElse(s.id, s.sample_id),
                 stream_id |-> s.stream_id, cpu |-> s.cpu,
                 period |-> s.period, value |-> s.value,
                 callchain |-> s.callchain, raw |-> s.raw, lbr |-> s.lbr,
                 lbr_hw_index |-> s.lbr_hw_index, regs_user |-> s.regs_user,
                 stack_user |-> s.stack_user, weight |-> s.weight,
                 data_src |-> s.data_src, transaction |-> s.transaction,
                 regs_intr |-> s.regs_intr, phys_addr |-> s.phys_addr,
                 aux |-> s.aux, cgroup |-> s.cgroup,
                 data_page_size |-> s.data_page_size,
                 code_page_size |-> s.code_page_size,
                 extra |-> SubSeq(b, st.pos + 1, Len(b))]]

(***************************************************************************)
(* The kernel side of a PERF_RECORD_SAMPLE: the payload is the enabled     *)
(* fields one after another in the order of perf_output_sample, each field *)
(* made of bytes that name the field, so that a field read from another    *)
(* field's place shows.                                                    *)
(***************************************************************************)
EmitOrder ==
    <<"IDENTIFIER", "IP", "TID", "TIME", "ADDR", "ID", "STREAM_ID", "CPU",
      "PERIOD", "READ", "CALLCHAIN", "RAW", "BRANCH_STACK", "REGS_USER",
      "STACK_USER", "WEIGHT", "DATA_SRC", "TRANSACTION", "REGS_INTR",
      "PHYS_ADDR", "CGROUP", "DATA_PAGE_SIZE", "CODE_PAGE_SIZE", "AUX">>

Tag(name) == CHOOSE i \in 1..Len(EmitOrder) : EmitOrder[i] = name

\* The k-th 64-bit word of field t; its two halves differ.
Word(t, k) == <<t, k, 0, 0, 100 + t, k, 0, 0>>
\* The 64-bit little-endian encoding of a small number.
LenWord(n) == <<n % 256, n \div 256, 0, 0, 0, 0, 0, 0>>
\* n bytes of blob for field t.
Blob(t, n) == [j \in 1..n |-> 200 + t + j]
\* The bytes after the last field.
ExtraBytes(n) == [j \in 1..n |-> 240 + j]

RECURSIVE Flat(_)
Flat(ss) == IF ss = <<>> THEN <<>> ELSE Head(ss) \o Flat(Tail(ss))

Opt(c, w) == IF c THEN <<w>> ELSE <<>>
OptVal(c, w) == IF c THEN Some(w) ELSE None

\* Each Emit operator gives the bytes written and the value they encode.
EmitRead(rf, nr) ==
    LET t == Tag("READ")
        te == "TOTAL_TIME_ENABLED" \in rf
        tr == "TOTAL_TIME_RUNNING" \in rf
        id == "ID" \in rf
    IN  IF "GROUP" \in rf
        THEN [bytes |->
                 LenWord(nr) \o Flat(Opt(te, Word(t, 1)) \o Opt(tr, Word(t, 2)))
                 \o Flat([k \in 1..nr |->
                            Word(t, 10 + 2 * k)
                            \o Flat(Opt(id, Word(t, 11 + 2 * k)))]),
              val |->
                 [kind |-> "Group",
                  time_enabled |-> OptVal(te, Word(t, 1)),
                  time_running |-> OptVal(tr, Word(t, 2)),
                  values |-> [k \in 1..nr |->
                                [value |-> Word(t, 10 + 2 * k),
                                 id |-> OptVal(id, Word(t, 11 + 2 * k))]]]]
        ELSE [bytes |->
                 Word(t, 0)
                 \o Flat(Opt(te, Word(t, 1)) \o Opt(tr, Word(t, 2))
                         \o Opt(id, Word(t, 3))),
              val |->
                 [kind |-> "Counter",
                  value |-> Word(t, 0),
                  time_enabled |-> OptVal(te, Word(t, 1)),
                  time_running |-> OptVal(tr, Word(t, 2)),
                  id |-> OptVal(id, Word(t, 3))]]

EmitCallchain(nr) ==
    LET ips == [k \in 1..nr |-> Word(Tag("CALLCHAIN"), k)]
    IN  [bytes |-> LenWord(nr) \o Flat(ips), val |-> ips]

EmitBlob(t, n) ==
    [bytes |-> LenWord(n) \o Blob(t, n), val |-> Blob(t, n)]

EmitBranchStack(bst, nr) ==
    LET t == Tag("BRANCH_STACK")
        hw == "HW_INDEX" \in bst
        ents == [k \in 1..nr |->
                    Word(t, 3 * k) \o Word(t, 3 * k + 1) \o Word(t, 3 * k + 2)]
    IN  [bytes |-> LenWord(nr) \o Flat(Opt(hw, Word(t, 99))) \o Flat(ents),
         val |-> [lbr |-> ents, hw_index |-> OptVal(hw, Word(t, 99))]]

\* The kernel writes the registers only when the ABI is not NONE.
EmitRegs(t, mask, abi) ==
    LET regs == IF abi = 0 THEN <<>>
                ELSE [k \in 1..Cardinality(mask) |-> Word(t, k)]
    IN  [bytes |-> LenWord(abi) \o Flat(regs),
         val |-> [abi |-> LenWord(abi),
                  mask |-> IF abi = 0 THEN {} ELSE mask,
                  regs |-> regs]]

\* The kernel writes the dynamic size only after a nonempty stack dump.
EmitStackUser(n, dyn) ==
    LET t == Tag("STACK_USER") IN
    [bytes |-> LenWord(n) \o Blob(t, n)
               \o (IF n = 0 THEN <<>> ELSE LenWord(dyn)),
     val |-> SubSeq(Blob(t, n), 1, Min(n, dyn))]

EmitField(name, cfg, k) ==
    CASE name = "READ" -> EmitRead(cfg.read_format, k.nr)
      [] name = "CALLCHAIN" -> EmitCallchain(k.nr)
      [] name = "RAW" -> EmitBlob(Tag("RAW"), k.nr)
      [] name = "BRANCH_STACK" -> EmitBranchStack(cfg.branch_sample_type, k.nr)
      [] name = "REGS_USER" -> EmitRegs(Tag("REGS_USER"), cfg.regs_user, k.abi)
      [] name = "STACK_USER" -> EmitStackUser(k.nr, k.dyn)
      [] name = "REGS_INTR" -> EmitRegs(Tag("REGS_INTR"), cfg.regs_intr, k.abi)
      [] name = "AUX" -> EmitBlob(Tag("AUX"), k.nr)
      [] OTHER -> [bytes |-> Word(Tag(name), 0), val |-> Word(Tag(name), 0)]

\* WEIGHT and WEIGHT_STRUCT share one word of the record.
Emitted(name, sty) ==
    IF name = "WEIGHT" THEN "WEIGHT" \in sty \/ "WEIGHT_STRUCT" \in sty
    ELSE name \in sty

EmitSample(cfg, k) ==
    Flat([i \in 1..Len(EmitOrder) |->
            IF Emitted(EmitOrder[i], cfg.sample_type)
            THEN EmitField(EmitOrder[i], cfg, k).bytes ELSE <<>>])
    \o ExtraBytes(k.extra)

\* The sample-type masks of the model: every mask of at most MaxFields
\* bits, the full mask, and the full mask less one bit.
SampleMasks ==
    {{q[i] : i \in 1..MaxFields} \ {"NONE"} :
        q \in [1..MaxFields -> SampleBits \cup {"NONE"}]}
    \cup {SampleBits \ {x} : x \in SampleBits \cup {"NONE"}}

ReadFormats ==
    {{}, {"TOTAL_TIME_ENABLED", "ID"}, {"GROUP"},
     {"GROUP", "TOTAL_TIME_ENABLED", "TOTAL_TIME_RUNNING", "ID"}}
\* SampleRegsAbi::NONE and SampleRegsAbi::ABI_64
Abis == {0, 2}
DynSizes == {1, 3}
ExtraLens == {0, 3}
RegsUserMask == {0, 2, 5}
RegsIntrMask == {1}

InitSample ==
    /\ RingIdle
    /\ WaitIdle
    /\ UserIdle
    /\ CursorIdle
    /\ CallIdle
    /\ BufIdle
    /\ RecordIdle
    /\ \E sty \in SampleMasks :
       \E rf \in (IF "READ" \in sty THEN ReadFormats ELSE {{}}) :
       \E bst \in (IF "BRANCH_STACK" \in sty THEN {{}, {"HW_INDEX"}} ELSE {{}}) :
       \E nr \in (IF sty \cap {"READ", "CALLCHAIN", "RAW", "BRANCH_STACK",
                               "STACK_USER", "AUX"} # {}
                  THEN 0..MaxCount ELSE {0}) :
       \E abi \in (IF sty \cap {"REGS_USER", "REGS_INTR"} # {}
                   THEN Abis ELSE {0}) :
       \E dyn \in (IF "STACK_USER" \in sty THEN DynSizes ELSE {1}) :
       \E extra \in ExtraLens :
          LET cfg == [sample_type |-> sty, read_format |-> rf,
                      branch_sample_type |-> bst,
                      regs_user |-> RegsUserMask, regs_intr |-> RegsIntrMask]
              k == [nr |-> nr, abi |-> abi, dyn |-> dyn, extra |-> extra]
          IN  /\ sCfg = cfg
              /\ sKern = k
              /\ sPay = EmitSample(cfg, k)
    /\ sOut = NoSample

\* A consumer parses the sample it was given.
ParseSample ==
    /\ sOut = NoSample
    /\ sOut' = SampleParse(sCfg, sPay)
    /\ UNCHANGED <<sCfg, sKern, sPay>>
    /\ UNCHANGED <<extraVars, ringVars, bufVars, recordVars, waitVars>>

NextSample == ParseSample

SpecSample == InitSample /\ [][NextSample]_vars

(***************************************************************************)
(* Record::parse (samples/mod.rs) and the decoders of the record types.    *)
(* The buffer given to Record::parse holds the payload of one record: the  *)
(* header.size - 8 bytes after the header.                                 *)
(***************************************************************************)
\* RecordType (the values of the kernel's PERF_RECORD_* constants)
RecordType ==
    [MMAP |-> 1, LOST |-> 2, COMM |-> 3, EXIT |-> 4, THROTTLE |-> 5,
     UNTHROTTLE |-> 6, FORK |-> 7, READ |-> 8, SAMPLE |-> 9, MMAP2 |-> 10,
     AUX |-> 11, ITRACE_START |-> 12, LOST_SAMPLES |-> 13, SWITCH |-> 14,
     SWITCH_CPU_WIDE |-> 15, NAMESPACES |-> 16, KSYMBOL |-> 17,
     BPF_EVENT |-> 18, CGROUP |-> 19, TEXT_POKE |-> 20]

KnownTypes == {RecordType[n] : n \in DOMAIN RecordType}

\* RecordMiscFlags::SWITCH_OUT
SwitchOutBit == 8192
MiscContains(misc, bit) == (misc \div bit) % 2 = 1

\* The fields of a PERF_RECORD_MMAP before the file name (the decoder of
\* Mmap is like that of Mmap2, less the fields MMAP2 added).
MmapFields ==
    <<<<"pid", 4>>, <<"tid", 4>>, <<"addr", 8>>, <<"len", 8>>, <<"pgoff", 8>>>>

\* The fields each decoder reads with fixed-width gets, in order, with
\* their widths in bytes.
FixedFields ==
    [Mmap |-> MmapFields,
     Lost |-> <<<<"id", 8>>, <<"lost", 8>>>>,
     Comm |-> <<<<"pid", 4>>, <<"tid", 4>>>>,
     Exit |-> <<<<"pid", 4>>, <<"ppid", 4>>, <<"tid", 4>>, <<"ptid", 4>>,
                <<"time", 8>>>>,
     Throttle |-> <<<<"time", 8>>, <<"id", 8>>, <<"stream_id", 8>>>>,
     Fork |-> <<<<"pid", 4>>, <<"ppid", 4>>, <<"tid", 4>>, <<"ptid", 4>>,
                <<"time", 8>>>>,
     Read |-> <<<<"pid", 4>>, <<"tid", 4>>>>,
     Mmap2 |-> <<<<"pid", 4>>, <<"tid", 4>>, <<"addr", 8>>, <<"len", 8>>,
                 <<"pgoff", 8>>, <<"maj", 4>>, <<"min", 4>>, <<"ino", 8>>,
                 <<"ino_generation", 8>>, <<"prot", 4>>, <<"flags", 4>>>>,
     Aux |-> <<<<"aux_offset", 8>>, <<"aux_size", 8>>, <<"flags", 8>>>>,
     ITraceStart |-> <<<<"pid", 4>>, <<"tid", 4>>>>,
     LostSamples |-> <<<<"lost", 8>>>>,
     SwitchCpuWide |-> <<<<"pid", 4>>, <<"tid", 4>>>>,
     Namespaces |-> <<<<"pid", 4>>, <<"tid", 4>>, <<"len", 8>>>>,
     KSymbol |-> <<<<"addr", 8>>, <<"len", 4>>, <<"ksym_type", 2>>,
                   <<"flags", 2>>>>,
     BpfEvent |-> <<<<"ty", 2>>, <<"flags", 2>>, <<"id", 4>>, <<"tag", 8>>>>,
     Cgroup |-> <<<<"id", 8>>>>,
     TextPoke |-> <<<<"addr", 8>>, <<"old_len", 2>>, <<"new_len", 2>>>>]

\* The decoders that end with parse_remainder and strip trailing NULs.
StringTail == {"Mmap", "Comm", "Mmap2", "KSymbol", "Cgroup"}

RECURSIVE WidthTo(_, _)
\* The total width of the first i fields of a field list.
WidthTo(spec, i) == IF i = 0 THEN 0 ELSE WidthTo(spec, i - 1) + spec[i][2]
Width(spec) == WidthTo(spec, Len(spec))

\* The fields of a field list read from b at pos.
FieldsAt(b, pos, spec) ==
    [n \in {spec[i][1] : i \in DOMAIN spec} |->
        LET i == CHOOSE j \in DOMAIN spec : spec[j][1] = n
        IN  Take(b, pos + WidthTo(spec, i - 1), spec[i][2])]

\* A strip that removes one trailing NUL at most.
StripOneNul(s) ==
    IF s # <<>> /\ s[Len(s)] = 0 THEN SubSeq(s, 1, Len(s) - 1) ELSE s

RECURSIVE StripNul(_)
\* while let Some(b'\0') = vec.last() { vec.pop(); }
StripNul(s) ==
    IF s # <<>> /\ s[Len(s)] = 0 THEN StripNul(SubSeq(s, 1, Len(s) - 1))
    ELSE s

\* `buf.get_u16_ne() as usize` on a little-endian host.
AsU16(w) == w[1] + 256 * w[2]

Event(kind, fields, more) == [kind |-> kind, fields |-> fields, more |-> more]

\* A decoder that is a struct literal of fixed-width gets, with
\* parse_remainder as its last field for the decoders of StringTail.
DecodeStruct(kind, b) ==
    LET spec == FixedFields[kind]
        w == Width(spec)
    IN  IF Len(b) < w THEN Panicked
        ELSE IF kind \in StringTail
        THEN Parsed(Len(b), Event(kind, FieldsAt(b, 0, spec),
                                  StripNul(Take(b, w, Len(b) - w))))
        ELSE Parsed(w, Event(kind, FieldsAt(b, 0, spec), <<>>))

\* Read::parse
DecodeRead(cfg, b) ==
    IF Len(b) < 8 THEN Panicked
    ELSE LET v == ReadValueParse(cfg.read_format, b, 8) IN
         IF ~v.ok THEN Panicked
         ELSE Parsed(8 + v.n,
                     Event("Read", FieldsAt(b, 0, FixedFields.Read), v.val))

\* SwitchCpuWide::parse
DecodeSwitchCpuWide(misc, b) ==
    IF Len(b) < 8 THEN Panicked
    ELSE Parsed(8, Event("SwitchCpuWide",
                         FieldsAt(b, 0, FixedFields.SwitchCpuWide),
                         IF MiscContains(misc, SwitchOutBit)
                         THEN "SwitchOut" ELSE "SwitchIn"))

\* Namespaces::parse
DecodeNamespaces(b) ==
    IF Len(b) < 16 THEN Panicked
    ELSE LET len == AsUsize(Take(b, 8, 8)) IN
         IF ~Fits(len, 16, Len(b) - 16) THEN Panicked
         ELSE Parsed(16 + 16 * len,
                     Event("Namespaces",
                           FieldsAt(b, 0, FixedFields.Namespaces),
                           [k \in 1..len |->
                               [dev |-> Take(b, 16 * k, 8),
                                inode |-> Take(b, 16 * k + 8, 8)]]))

\* TextPoke::parse
DecodeTextPoke(b) ==
    IF Len(b) < 12 THEN Panicked
    ELSE LET old_len == AsU16(Take(b, 8, 2))
             new_len == AsU16(Take(b, 10, 2))
         IN  IF old_len > Len(b) - 12 THEN Panicked
             ELSE IF new_len > Len(b) - 12 - old_len THEN Panicked
             ELSE Parsed(12 + old_len + new_len,
                         Event("TextPoke",
                               FieldsAt(b, 0, FixedFields.TextPoke),
                               [old_bytes |-> Take(b, 12, old_len),
                                new_bytes |-> Take(b, 12 + old_len, new_len)]))

\* RecordEvent::Sample(sample), from the outcome s of Sample::parse on n bytes.
SampleEvent(s, n) ==
    IF s.kind = "panic" THEN Panicked
    ELSE Parsed(n, Event("Sample", s.sample, <<>>))

\* Sample::parse as a record decoder: it takes the whole limited buffer.
DecodeSample(cfg, b) == SampleEvent(SampleParse(cfg, b), Len(b))

\* RecordEvent::Unknown(limited.parse_remainder())
DecodeUnknown(b) == Parsed(Len(b), Event("Unknown", [data |-> b], <<>>))

\* The `match ty` of Record::parse that makes the event.
EventParse(ty, misc, cfg, b) ==
    CASE ty = RecordType.MMAP -> DecodeStruct("Mmap", b)
      [] ty = RecordType.LOST -> DecodeStruct("Lost", b)
      [] ty = RecordType.COMM -> DecodeStruct("Comm", b)
      [] ty = RecordType.EXIT -> DecodeStruct("Exit", b)
      [] ty = RecordType.THROTTLE -> DecodeStruct("Throttle", b)
      [] ty = RecordType.UNTHROTTLE ->
            LET t == DecodeStruct("Throttle", b) IN
            IF ~t.ok THEN Panicked
            ELSE Parsed(t.n, [t.val EXCEPT !.kind = "Unthrottle"])
      [] ty = RecordType.FORK -> DecodeStruct("Fork", b)
      [] ty = RecordType.READ -> DecodeRead(cfg, b)
      [] ty = RecordType.SAMPLE -> DecodeSample(cfg, b)
      [] ty = RecordType.MMAP2 -> DecodeStruct("Mmap2", b)
      [] ty = RecordType.AUX -> DecodeStruct("Aux", b)
      [] ty = RecordType.ITRACE_START -> DecodeStruct("ITraceStart", b)
      [] ty = RecordType.LOST_SAMPLES -> DecodeStruct("LostSamples", b)
      [] ty = RecordType.SWITCH -> Parsed(0, Event("Switch", <<>>, <<>>))
      [] ty = RecordType.SWITCH_CPU_WIDE -> DecodeSwitchCpuWide(misc, b)
      [] ty = RecordType.NAMESPACES -> DecodeNamespaces(b)
      [] ty = RecordType.KSYMBOL -> DecodeStruct("KSymbol", b)
      [] ty = RecordType.BPF_EVENT -> DecodeStruct("BpfEvent", b)
      [] ty = RecordType.CGROUP -> DecodeStruct("Cgroup", b)
      [] ty = RecordType.TEXT_POKE -> DecodeTextPoke(b)
      [] OTHER -> DecodeUnknown(b)

\* The sample-type bits that SampleId reads, in the order it reads them.
SampleIdOrder == <<"TID", "TIME", "ID", "STREAM_ID", "CPU", "IDENTIFIER">>

\* An expected size that counts the bits whatever sample_id_all says.
ExpectedSizeOfBits(cfg) ==
    8 * Cardinality({i \in DOMAIN SampleIdOrder :
                        SampleIdOrder[i] \in cfg.sample_type})

\* SampleId::expected_size
ExpectedSize(cfg) ==
    IF ~cfg.sample_id_all THEN 0
    ELSE 8 * Cardinality({i \in DOMAIN SampleIdOrder :
                            SampleIdOrder[i] \in cfg.sample_type})

\* SampleId::default()
SampleIdDefault ==
    [pid |-> None, tid |-> None, time |-> None, id |-> None,
     stream_id |-> None, cpu |-> None]

\* One `if config.sample_type.contains(..)` block of SampleId::parse.
SampleIdStep(name, b, st) ==
    LET pos == st.pos
        w == Some(Take(b, pos, 8))
    IN  IF Len(b) - pos < 8 THEN [st EXCEPT !.ok = FALSE]
        ELSE [pos |-> pos + 8, ok |-> TRUE,
              s |-> CASE name = "TID" ->
                            [st.s EXCEPT !.pid = Some(Take(b, pos, 4)),
                                         !.tid = Some(Take(b, pos + 4, 4))]
                      [] name = "TIME" -> [st.s EXCEPT !.time = w]
                      [] name = "ID" -> [st.s EXCEPT !.id = w]
                      [] name = "STREAM_ID" -> [st.s EXCEPT !.stream_id = w]
                      [] name = "CPU" ->
                            [st.s EXCEPT !.cpu = Some(Take(b, pos, 4))]
                      [] name = "IDENTIFIER" -> [st.s EXCEPT !.id = w]]

RECURSIVE SampleIdSteps(_, _, _, _)
SampleIdSteps(cfg, b, i, st) ==
    IF i > Len(SampleIdOrder) THEN st
    ELSE SampleIdSteps(cfg, b, i + 1,
            IF st.ok /\ SampleIdOrder[i] \in cfg.sample_type
            THEN SampleIdStep(SampleIdOrder[i], b, st) ELSE st)

\* SampleId::parse, reading from pos.
SampleIdParse(cfg, b, pos) ==
    IF ~cfg.sample_id_all THEN Parsed(0, SampleIdDefault)
    ELSE LET st == SampleIdSteps(cfg, b, 1,
                      [pos |-> pos, ok |-> TRUE, s |-> SampleIdDefault])
         IN  IF ~st.ok THEN Panicked ELSE Parsed(st.pos - pos, st.s)

\* The sample id made from the event when the record carries none.
SampleIdFromEvent(ev) ==
    CASE ev.kind = "Mmap" ->
            [SampleIdDefault EXCEPT !.pid = Some(ev.fields.pid),
                                    !.tid = Some(ev.fields.tid)]
      [] ev.kind = "Sample" ->
            [pid |-> ev.fields.pid, tid |-> ev.fields.tid,
             time |-> ev.fields.time, id |-> ev.fields.id,
             stream_id |-> ev.fields.stream_id, cpu |-> ev.fields.cpu]
      [] OTHER -> SampleIdDefault

\* Where the reads of the event decoder leave the buffer when the
\* skip of the rest of the limited buffer is left out.
AfterEventNoSkip(limit, read) == read

\* limited.advance(limited.remaining()): the buffer is at the limit.
AfterEvent(limit, read) == limit

\* The trailer length with MMAP and SAMPLE treated as every other type.
SampleIdLenAll(ty, cfg) == Some(ExpectedSize(cfg))

\* sample_id_len
SampleIdLen(ty, cfg) ==
    IF ty \in {RecordType.MMAP, RecordType.SAMPLE} THEN None
    ELSE Some(ExpectedSize(cfg))

\* The Record built from the event ev and the outcome sid of the sample id,
\* with the buffer at position at before the sample id was read.
RecordOf(header, b, ev, at, sid) ==
    IF ~sid.ok THEN [kind |-> "panic"]
    ELSE [kind |-> "record",
          ty |-> header.type,
          misc |-> header.misc,
          event |-> ev,
          sample_id |-> sid.val,
          remaining |-> Len(b) - (at + sid.n)]

\* Record::parse after the event decoder gave ev: the rest of the limited
\* buffer is skipped and the sample id is read, or made from the event.
RecordAfterEvent(cfg, header, b, limit, sample_id_len, ev) ==
    IF ~ev.ok THEN [kind |-> "panic"]
    ELSE RecordOf(header, b, ev.val, AfterEvent(limit, ev.n),
                  IF sample_id_len.some
                  THEN SampleIdParse(cfg, b, AfterEvent(limit, ev.n))
                  ELSE Parsed(0, SampleIdFromEvent(ev.val)))

\* Record::parse with the buffer limited to all but its last trailer bytes.
RecordLimited(cfg, header, b, sample_id_len, trailer) ==
    IF Len(b) < trailer THEN [kind |-> "panic"]
    ELSE RecordAfterEvent(cfg, header, b, Len(b) - trailer, sample_id_len,
                          EventParse(header.type, header.misc, cfg,
                                     SubSeq(b, 1, Len(b) - trailer)))

\* sample_id_len.unwrap_or(0)
UnwrapOr0(len) == IF len.some THEN len.val ELSE 0

\* Record::parse.  `remaining() - sample_id_len` below zero panics in a
\* build with overflow checks; without them it wraps, the limit covers the
\* whole buffer and SampleId::parse then reads from an empty buffer, which
\* panics as well.
RecordParse(cfg, header, b) ==
    RecordLimited(cfg, header, b, SampleIdLen(header.type, cfg),
                  UnwrapOr0(SampleIdLen(header.type, cfg)))

(***************************************************************************)
(* The kernel side of the other record types: the fields of the event, a   *)
(* few bytes a newer kernel may add after them, and the sample-id trailer  *)
(* when sample_id_all is set (never on MMAP and SAMPLE records).           *)
(***************************************************************************)
\* The event kind the kernel means by a record type.
KindOfType ==
    [t \in KnownTypes |->
        CASE t = 1 -> "Mmap" [] t = 2 -> "Lost" [] t = 3 -> "Comm"
          [] t = 4 -> "Exit" [] t = 5 -> "Throttle" [] t = 6 -> "Unthrottle"
          [] t = 7 -> "Fork" [] t = 8 -> "Read" [] t = 9 -> "Sample"
          [] t = 10 -> "Mmap2" [] t = 11 -> "Aux" [] t = 12 -> "ITraceStart"
          [] t = 13 -> "LostSamples" [] t = 14 -> "Switch"
          [] t = 15 -> "SwitchCpuWide" [] t = 16 -> "Namespaces"
          [] t = 17 -> "KSymbol" [] t = 18 -> "BpfEvent" [] t = 19 -> "Cgroup"
          [] t = 20 -> "TextPoke"]

\* Type tags this build does not know.
UnknownTypes == {0, 21, 77}

\* The struct whose fields a kind carries.
StructOf(kind) == IF kind = "Unthrottle" THEN "Throttle" ELSE kind

\* The bytes the kernel writes for the i-th field of a struct.
KernelField(kind, i, k) ==
    LET name == FixedFields[kind][i][1]
        w == FixedFields[kind][i][2]
    IN  IF kind = "Namespaces" /\ name = "len" THEN LenWord(k.nr)
        ELSE IF kind = "TextPoke" /\ name = "old_len" THEN <<k.nr, 0>>
        ELSE IF kind = "TextPoke" /\ name = "new_len" THEN <<1, 0>>
        ELSE [j \in 1..w |-> 16 * i + j]

KernelFields(kind, k) ==
    [n \in {FixedFields[kind][i][1] : i \in DOMAIN FixedFields[kind]} |->
        KernelField(kind,
                    CHOOSE j \in DOMAIN FixedFields[kind] :
                        FixedFields[kind][j][1] = n,
                    k)]

\* A string of n bytes, NUL-terminated and padded to 8 bytes.
KernelString(n) ==
    [j \in 1..n |-> 64 + j] \o [j \in 1..(8 - (n % 8)) |-> 0]

\* The event of a known type other than SAMPLE: its bytes and its value.
EmitEvent(kind, cfg, misc, k) ==
    LET st == StructOf(kind)
        fixed == IF kind = "Switch" THEN <<>>
                 ELSE Flat([i \in DOMAIN FixedFields[st] |->
                              KernelField(st, i, k)])
        fields == IF kind = "Switch" THEN <<>> ELSE KernelFields(st, k)
    IN  CASE kind \in StringTail ->
                [bytes |-> fixed \o KernelString(k.nr),
                 val |-> Event(kind, fields, [j \in 1..k.nr |-> 64 + j])]
          [] kind = "Read" ->
                LET r == EmitRead(cfg.read_format, k.nr) IN
                [bytes |-> fixed \o r.bytes, val |-> Event(kind, fields, r.val)]
          [] kind = "SwitchCpuWide" ->
                [bytes |-> fixed,
                 val |-> Event(kind, fields,
                               IF MiscContains(misc, SwitchOutBit)
                               THEN "SwitchOut" ELSE "SwitchIn")]
          [] kind = "Namespaces" ->
                LET ns == [i \in 1..k.nr |->
                             [dev |-> Word(50, i), inode |-> Word(51, i)]]
                IN  [bytes |-> fixed
                               \o Flat([i \in 1..k.nr |->
                                          ns[i].dev \o ns[i].inode]),
                     val |-> Event(kind, fields, ns)]
          [] kind = "TextPoke" ->
                [bytes |-> fixed \o Blob(1, k.nr) \o Blob(2, 1),
                 val |-> Event(kind, fields,
                               [old_bytes |-> Blob(1, k.nr),
                                new_bytes |-> Blob(2, 1)])]
          [] OTHER -> [bytes |-> fixed, val |-> Event(kind, fields, <<>>)]

\* The bytes of a record of a type this build does not know.
OpaqueBytes(n) == [j \in 1..n |-> 150 + j]

\* The bytes of the event of a record.
EmitBody(ty, cfg, misc, k) ==
    IF ty = RecordType.SAMPLE THEN EmitSample(cfg, k)
    ELSE IF ty \in KnownTypes
    THEN EmitEvent(KindOfType[ty], cfg, misc, k).bytes
    ELSE OpaqueBytes(8 * k.nr)

\* Bytes after the fields that the decoder of this build does not read.
PadBytes(n) == [j \in 1..n |-> 190 + j]

\* The word of the trailer for the i-th entry of SampleIdOrder.
TrailerWord(i) == Word(30 + i, 0)

\* The sample-id trailer the kernel appends.
EmitTrailer(ty, cfg) ==
    IF ~cfg.sample_id_all \/ ty \in {RecordType.MMAP, RecordType.SAMPLE}
    THEN <<>>
    ELSE Flat([i \in DOMAIN SampleIdOrder |->
                 IF SampleIdOrder[i] \in cfg.sample_type
                 THEN TrailerWord(i) ELSE <<>>])

\* The payload of a record, less the last k.cut bytes when it is cut short.
EmitRecord(ty, cfg, misc, k) ==
    LET full == EmitBody(ty, cfg, misc, k) \o PadBytes(k.pad)
                \o EmitTrailer(ty, cfg)
    IN  SubSeq(full, 1, Len(full) - Min(k.cut, Len(full)))

\* The types whose event has a part of variable length.
VariableTypes ==
    {RecordType.MMAP, RecordType.COMM, RecordType.MMAP2, RecordType.KSYMBOL,
     RecordType.CGROUP, RecordType.READ, RecordType.NAMESPACES,
     RecordType.TEXT_POKE} \cup UnknownTypes

\* The types whose decoder takes every byte before the trailer.
GreedyTypes ==
    {RecordType.MMAP, RecordType.COMM, RecordType.MMAP2, RecordType.KSYMBOL,
     RecordType.CGROUP, RecordType.SAMPLE} \cup UnknownTypes

\* The sample-type bits of the configurations given to Record::parse.
RecordMasks == SUBSET {SampleIdOrder[i] : i \in DOMAIN SampleIdOrder}
PadLens == {0, 8}
CutLens == {0, 1, 9}

InitRecord ==
    /\ RingIdle
    /\ WaitIdle
    /\ UserIdle
    /\ CursorIdle
    /\ CallIdle
    /\ BufIdle
    /\ SampleIdle
    /\ \E ty \in KnownTypes \cup UnknownTypes :
       \E sty \in RecordMasks :
       \E sia \in BOOLEAN :
       \E rf \in (IF ty = RecordType.READ THEN ReadFormats ELSE {{}}) :
       \E misc \in (IF ty = RecordType.SWITCH_CPU_WIDE
                    THEN {0, SwitchOutBit} ELSE {0}) :
       \E nr \in (IF ty \in VariableTypes THEN 0..MaxCount ELSE {0}) :
       \E pad \in (IF ty \in GreedyTypes THEN {0} ELSE PadLens) :
       \E extra \in (IF ty = RecordType.SAMPLE THEN ExtraLens ELSE {0}) :
       \E cut \in CutLens :
          LET cfg == [sample_type |-> sty, read_format |-> rf,
                      sample_id_all |-> sia, branch_sample_type |-> {},
                      regs_user |-> RegsUserMask, regs_intr |-> RegsIntrMask]
              k == [nr |-> nr, pad |-> pad, cut |-> cut, extra |-> extra,
                    abi |-> 0, dyn |-> 1]
              pay == EmitRecord(ty, cfg, misc, k)
          IN  /\ rCfg = cfg
              /\ rKern = k
              /\ rPay = pay
              /\ rHdr = [type |-> ty, misc |-> misc,
                         size |-> HeaderSize + Len(pay)]
    /\ rOut = NoRecord

\* A consumer parses the record it was given.
ParseRecord ==
    /\ rOut = NoRecord
    /\ rOut' = RecordParse(rCfg, rHdr, rPay)
    /\ UNCHANGED <<rCfg, rHdr, rKern, rPay>>
    /\ UNCHANGED <<extraVars, ringVars, bufVars, sampleVars, waitVars>>

NextRecordParse == ParseRecord

SpecRecord == InitRecord /\ [][NextRecordParse]_vars

(***************************************************************************)
(* Records whose decoder ends with a string: the kernel's string bytes are *)
(* taken from every byte sequence up to MaxName bytes, NULs included.      *)
(***************************************************************************)
MaxName == 4
NameBytes == {0, 65}

\* The record types whose last field is a NUL-padded string.
StringTypes ==
    {RecordType.COMM, RecordType.MMAP2, RecordType.KSYMBOL, RecordType.CGROUP}

\* The bytes that may follow the fixed fields of such a record.
NameTails == UNION {[1..n -> NameBytes] : n \in 0..MaxName}

\* The fixed-width fields of a record of this kind, as the kernel lays
\* them out.
EmitFixed(kind, k) ==
    Flat([i \in DOMAIN FixedFields[kind] |-> KernelField(kind, i, k)])

InitString ==
    /\ RingIdle
    /\ WaitIdle
    /\ UserIdle
    /\ CursorIdle
    /\ CallIdle
    /\ BufIdle
    /\ SampleIdle
    /\ \E ty \in StringTypes :
       \E sty \in {{}, {"TID", "CPU"}} :
       \E sia \in BOOLEAN :
       \E tail \in NameTails :
          LET cfg == [sample_type |-> sty, read_format |-> {},
                      sample_id_all |-> sia, branch_sample_type |-> {},
                      regs_user |-> RegsUserMask, regs_intr |-> RegsIntrMask]
              k == [nr |-> Len(tail), pad |-> 0, cut |-> 0, extra |-> 0,
                    abi |-> 0, dyn |-> 1]
              pay == EmitFixed(KindOfType[ty], k) \o tail
                     \o EmitTrailer(ty, cfg)
          IN  /\ rCfg = cfg
              /\ rKern = k
              /\ rPay = pay
              /\ rHdr = [type |-> ty, misc |-> 0,
                         size |-> HeaderSize + Len(pay)]
    /\ rOut = NoRecord

SpecString == InitString /\ [][NextRecordParse]_vars

(***************************************************************************)
(* Decoding the outstanding Record (Record::parse_record).  The parser     *)
(* works on a copy of the Record's ByteBuffer, so neither the Record nor   *)
(* the ring changes, whatever the decoder does.                            *)
(***************************************************************************)
\* sampler.config(): the sampler was built to sample the instruction pointer.
RingConfig ==
    [sample_type |-> {"IP"}, read_format |-> {}, sample_id_all |-> FALSE,
     branch_sample_type |-> {}, regs_user |-> RegsUserMask,
     regs_intr |-> RegsIntrMask]

\* The outcome of the decoder on a record and the payload bytes it read.
\* A decoder that fails here fails on its first read.
DecodeOutcome(r, n) ==
    IF r.kind = "panic" THEN [kind |-> "failed", read |-> 0]
    ELSE [kind |-> "ok", read |-> n - r.remaining]

\* record.parse_record()
DecodeOf(cfg, header, b) == DecodeOutcome(RecordParse(cfg, header, b), Len(b))

DecodeRecord ==
    /\ rec # NoRecord
    /\ decoded = NotDecoded
    /\ decoded' = DecodeOf(RingConfig, rec.header, BufBytes(ring, rec.data))
    /\ lastOp' = "decode"
    /\ UNCHANGED <<ring, data_head, data_tail, rec, result, stream, released,
                   forgotten, lastDrop>>
    /\ UNCHANGED <<extraVars, bufVars, sampleVars, recordVars, waitVars>>

Next ==
    \/ KernelAppend
    \/ KernelAppendMalformed
    \/ NextRecord
    \/ DropRecord
    \/ ForgetRecord

Spec == Init /\ [][Next]_vars

\* A consumer that may decode each Record before it drops it.
NextDecode ==
    \/ KernelAppend
    \/ NextRecord
    \/ DecodeRecord
    \/ DropRecord

SpecDecode == Init /\ [][NextDecode]_vars

(***************************************************************************)
(* Sampler::next_blocking.  The call blocks only in poll, so it is two     *)
(* kinds of step: from the call to its first poll (or its return), and     *)
(* from the return of a poll to the next poll (or the return of the call). *)
(* Times are in milliseconds since the call read the clock for its         *)
(* deadline.                                                               *)
(***************************************************************************)
\* Largest timeout, in milliseconds, given to next_blocking.
MaxTimeout == 1
\* Latest reading of the clock within one call.
MaxClock == 2
\* The observed process stops making records once data_head reaches this.
MaxWork == 32

\* timeout: Option<Duration>
Timeouts == {None} \cup {Some(t) : t \in 0..MaxTimeout}

\* deadline.checked_duration_since(Instant::now()) is None
DeadlinePassed(deadline, t) == deadline.some /\ t > deadline.val

\* libc::c_int::MAX
CIntMax == 2147483647

\* The timeout given to poll: the milliseconds left to the deadline, at most
\* c_int::MAX, or -1.
PollTimeout(deadline, t) ==
    IF deadline.some THEN Min(deadline.val - t, CIntMax) ELSE -1

\* One turn of the loop, from next_record to the call of poll, with last the
\* call's reading of the clock so far and t its reading in this turn, if
\* the turn gets to read it.
LoopTurn(deadline, last, t) ==
    LET r == NextRecordOf(ring, data_tail, data_head) IN
    /\ result' = r.kind
    /\ rec' = IF r.kind = "record" THEN r ELSE NoRecord
    /\ returned' = IF r.kind = "record" THEN Append(returned, data_tail)
                   ELSE returned
    /\ elapsed' = IF r.kind = "none" /\ deadline.some THEN t ELSE last
    /\ nbRet' = CASE r.kind = "record" -> "record"
                  [] r.kind = "panic" -> "panic"
                  [] DeadlinePassed(deadline, t) -> "none"
                  [] OTHER -> "pending"
    /\ nbPc' = IF r.kind = "none" /\ ~DeadlinePassed(deadline, t)
               THEN "poll" ELSE "idle"
    /\ UNCHANGED <<ring, data_head, data_tail, stream, released, forgotten,
                   decoded, lastDrop>>
    /\ UNCHANGED <<extraVars, bufVars, sampleVars, recordVars>>

\* sampler.next_blocking(timeout), up to its first poll.
NextBlockingWith(timeout) ==
    /\ nbPc = "idle"
    /\ nbRet # "panic"
    /\ rec = NoRecord
    /\ nbDeadline' = timeout
    /\ \E t \in 0..MaxClock : LoopTurn(timeout, 0, t)
    /\ lastOp' = "call"
    /\ UNCHANGED exited

NextBlocking == \E timeout \in Timeouts : NextBlockingWith(timeout)

\* Ok(0): poll timed out.  A poll without a timeout never does.
PollTimedOut ==
    /\ nbPc = "poll"
    /\ nbDeadline.some
    /\ nbPc' = "idle"
    /\ nbRet' = "none"
    /\ lastOp' = "poll_timeout"
    /\ UNCHANGED <<ring, data_head, data_tail, rec, result, stream, released,
                   forgotten, decoded, lastDrop>>
    /\ UNCHANGED <<nbDeadline, elapsed, exited, returned>>
    /\ UNCHANGED <<extraVars, bufVars, sampleVars, recordVars>>

\* Ok(_) with POLLIN and without POLLHUP: continue.
PollReady ==
    /\ nbPc = "poll"
    /\ ~exited
    /\ \E t \in elapsed..MaxClock : LoopTurn(nbDeadline, elapsed, t)
    /\ lastOp' = "poll_in"
    /\ UNCHANGED <<nbDeadline, exited>>

\* A hang-up that is taken as the end of the stream without another read.
PollHangUpGivesUp ==
    /\ nbPc = "poll"
    /\ exited
    /\ nbPc' = "idle"
    /\ nbRet' = "none"
    /\ lastOp' = "poll_hup"
    /\ UNCHANGED <<ring, data_head, data_tail, rec, result, stream, released,
                   forgotten, decoded, lastDrop>>
    /\ UNCHANGED <<nbDeadline, elapsed, exited, returned>>
    /\ UNCHANGED <<extraVars, bufVars, sampleVars, recordVars>>

\* A hang-up that is taken as readiness: the loop goes on.
PollHangUpRetries ==
    /\ nbPc = "poll"
    /\ exited
    /\ \E t \in elapsed..MaxClock : LoopTurn(nbDeadline, elapsed, t)
    /\ lastOp' = "poll_hup"
    /\ UNCHANGED <<nbDeadline, exited>>

\* Ok(_) with POLLHUP: return self.next_record().
PollHangUp ==
    /\ nbPc = "poll"
    /\ exited
    /\ LET r == NextRecordOf(ring, data_tail, data_head) IN
       /\ result' = r.kind
       /\ rec' = IF r.kind = "record" THEN r ELSE NoRecord
       /\ returned' = IF r.kind = "record" THEN Append(returned, data_tail)
                      ELSE returned
       /\ nbRet' = r.kind
    /\ nbPc' = "idle"
    /\ lastOp' = "poll_hup"
    /\ UNCHANGED <<ring, data_head, data_tail, stream, released, forgotten,
                   decoded, lastDrop>>
    /\ UNCHANGED <<nbDeadline, elapsed, exited>>
    /\ UNCHANGED <<extraVars, bufVars, sampleVars, recordVars>>

\* An interrupted poll that ends the call with None.
PollInterruptedGivesUp ==
    /\ nbPc = "poll"
    /\ nbPc' = "idle"
    /\ nbRet' = "none"
    /\ lastOp' = "poll_eintr"
    /\ UNCHANGED <<ring, data_head, data_tail, rec, result, stream, released,
                   forgotten, decoded, lastDrop>>
    /\ UNCHANGED <<nbDeadline, elapsed, exited, returned>>
    /\ UNCHANGED <<extraVars, bufVars, sampleVars, recordVars>>

\* Err(e) with EINTR: continue.
PollInterrupted ==
    /\ nbPc = "poll"
    /\ \E t \in elapsed..MaxClock : LoopTurn(nbDeadline, elapsed, t)
    /\ lastOp' = "poll_eintr"
    /\ UNCHANGED <<nbDeadline, exited>>

\* Err(e) with any other error: panic!
PollFailed ==
    /\ nbPc = "poll"
    /\ nbPc' = "idle"
    /\ nbRet' = "panic"
    /\ lastOp' = "poll_error"
    /\ UNCHANGED <<ring, data_head, data_tail, rec, result, stream, released,
                   forgotten, decoded, lastDrop>>
    /\ UNCHANGED <<nbDeadline, elapsed, exited, returned>>
    /\ UNCHANGED <<extraVars, bufVars, sampleVars, recordVars>>

\* The observed process exits.
ProcessExit ==
    /\ ~exited
    /\ exited' = TRUE
    /\ lastOp' = "exit"
    /\ UNCHANGED <<ring, data_head, data_tail, rec, result, stream, released,
                   forgotten, decoded, lastDrop>>
    /\ UNCHANGED <<nbPc, nbDeadline, elapsed, nbRet, returned>>
    /\ UNCHANGED <<extraVars, bufVars, sampleVars, recordVars>>

\* The kernel writes records for the process while it runs.
KernelAppendRunning ==
    /\ ~exited
    /\ data_head < MaxWork
    /\ KernelAppend

NextBlockingStep ==
    \/ KernelAppendRunning
    \/ ProcessExit
    \/ NextBlocking
    \/ PollTimedOut
    \/ PollReady
    \/ PollHangUp
    \/ PollInterrupted
    \/ PollFailed
    \/ DropRecord

SpecBlocking == Init /\ [][NextBlockingStep]_vars

(***************************************************************************)
(* The loop `while let Some(_) = sampler.next_blocking(None) {}`: each     *)
(* Record is dropped at the end of its turn and the loop ends at the first *)
(* None.  The program runs on, so a call that can be made is made and a    *)
(* Record that can be dropped is dropped; poll returns once the process    *)
(* has exited, since the kernel then reports the hang-up.                  *)
(***************************************************************************)
LoopCall ==
    /\ nbRet \in {"init", "record"}
    /\ NextBlockingWith(None)

NextLoop ==
    \/ KernelAppendRunning
    \/ ProcessExit
    \/ LoopCall
    \/ PollReady
    \/ PollInterrupted
    \/ PollHangUp
    \/ DropRecord

SpecLoop ==
    /\ Init
    /\ [][NextLoop]_vars
    /\ WF_vars(LoopCall)
    /\ WF_vars(DropRecord)
    /\ WF_vars(PollHangUp)

(***************************************************************************)
(* Sampler::read_user.  Each load of the page is one step, so that the     *)
(* kernel's update of the page can come between any two of them.           *)
(***************************************************************************)
\* Number of updates of the page the kernel makes.
MaxUpdates == 2

\* page.pmc_width, page.time_shift, page.time_mult, page.time_offset,
\* page.time_cycles and page.time_mask, as the kernel set them when the
\* counter was made.
PageFixed ==
    [pmc_width |-> 3, time_shift |-> 1, time_mult |-> 3, time_offset |-> 0,
     time_cycles |-> 0, time_mask |-> 1]
\* What rdpmc and rdtsc may give.
PmcValues == {0, 2, 4}
Cycles == {0, 3}
\* The capability bits of the page that read_user looks at.
Capabilities ==
    SUBSET {"cap_user_rdpmc", "cap_user_time", "cap_user_time_short"}

\* 2^n
RECURSIVE Pow2(_)
Pow2(n) == IF n = 0 THEN 1 ELSE 2 * Pow2(n - 1)

\* pmc <<= 64 - width; pmc >>= 64 - width, on an i64, for pmc < 2^width
SignExtend(pmc, width) ==
    IF pmc >= Pow2(width - 1) THEN pmc - Pow2(width) ELSE pmc

\* PmcReadData::index
PmcIndex(d) ==
    IF "cap_user_rdpmc" \in d.flags /\ d.index # 0 THEN Some(d.index - 1)
    ELSE None

\* PmcReadData::with_pmc: the assertion, then the sign-extended counter
\* added to count.
WithPmc(d, pmc) ==
    IF ~PmcIndex(d).some THEN Panic
    ELSE [d EXCEPT !.count = d.count + SignExtend(pmc, PageFixed.pmc_width),
                   !.has_pmc_value = TRUE]

\* The time that cyc cycles stand for.
TscDelta(cyc) ==
    PageFixed.time_offset + (cyc \div Pow2(PageFixed.time_shift)) * PageFixed.time_mult
               + (((cyc % Pow2(PageFixed.time_shift)) * PageFixed.time_mult) \div Pow2(PageFixed.time_shift))

\* a & b
RECURSIVE BitAnd(_, _)
BitAnd(a, b) ==
    IF a = 0 \/ b = 0 THEN 0
    ELSE (a % 2) * (b % 2) + 2 * BitAnd(a \div 2, b \div 2)

\* cyc = time_cycles + ((cyc - time_cycles) & time_mask), for a cyc that is
\* not below time_cycles
ShortCycles(cyc) ==
    PageFixed.time_cycles
        + BitAnd(cyc - PageFixed.time_cycles, PageFixed.time_mask)

\* PmcReadData::with_tsc: the assertion, the early return for a counter
\* that is not active, the cycles cut to the mask under
\* cap_user_time_short, and the delta added to both times.
WithTsc(d, cyc) ==
    IF "cap_user_time" \notin d.flags THEN Panic
    ELSE IF "cap_user_rdpmc" \notin d.flags \/ d.index = 0 THEN d
    ELSE IF "cap_user_time_short" \in d.flags
    THEN [d EXCEPT !.enabled = d.enabled + TscDelta(ShortCycles(cyc)),
                   !.running = d.running + TscDelta(ShortCycles(cyc))]
    ELSE [d EXCEPT !.enabled = d.enabled + TscDelta(cyc),
                   !.running = d.running + TscDelta(cyc)]

\* The k lowest base-256 digits of n, the least significant first; those of
\* the two's complement of n when n is below 0.
RECURSIVE Digits(_, _)
Digits(n, k) ==
    IF k = 0 THEN <<>> ELSE <<n % 256>> \o Digits(n \div 256, k - 1)

\* n as u64: its eight bytes.  For an i64 below 0 this is the cast
\* `n as u64`, which gives 2^64 + n.
U64(n) == Digits(n, 8)

\* The UserReadData made from a PmcReadData: the two times, and the count
\* cast to u64 when a counter was read.
UserReadDataOf(d) ==
    [time_enabled |-> U64(d.enabled),
     time_running |-> U64(d.running),
     value |-> IF d.has_pmc_value THEN Some(U64(d.count)) ELSE None]

\* A finish that trusts the attempt whatever the lock says.
FinishUnchecked(d, nseq) == Some(UserReadDataOf(d))

\* PmcReadData::finish, with nseq the second load of the lock.
Finish(d, nseq) ==
    IF nseq # d.seq THEN None ELSE Some(UserReadDataOf(d))

\* The field of PmcReadData that holds the loaded page field.
DataField ==
    [time_enabled |-> "enabled", time_running |-> "running",
     index |-> "index", offset |-> "count"]

\* The order of the loads of one attempt.
AfterLoad ==
    [lock |-> "capabilities", capabilities |-> "time_enabled",
     time_enabled |-> "time_running", time_running |-> "index",
     index |-> "offset", offset |-> "pmc", pmc |-> "tsc", tsc |-> "finish"]

\* sampler.read_user() is called.
ReadUser ==
    /\ uPc = "idle"
    /\ uPc' = "lock"
    /\ uData' = NoData
    /\ uTrace' = <<>>
    /\ uAttempts' = 0
    /\ UNCHANGED <<pgLock, pg, kPc, kGen, uRet>>
    /\ UNCHANGED <<ringVars, bufVars, sampleVars, recordVars, waitVars,
                   cursorVars, callVars>>

\* The next load of the attempt, or its end in finish.
ReadUserStep ==
    /\ uPc # "idle"
    /\ \/ /\ uPc = "lock"
          /\ uData' = [NoData EXCEPT !.seq = pgLock]
          /\ uTrace' = << <<"lock", pgLock>> >>
          /\ uPc' = AfterLoad[uPc]
          /\ uAttempts' = uAttempts + 1
          /\ UNCHANGED uRet
       \/ /\ uPc = "capabilities"
          /\ uData' = [uData EXCEPT !.flags = pg.capabilities]
          /\ uTrace' = Append(uTrace, <<uPc, pg.capabilities>>)
          /\ uPc' = AfterLoad[uPc]
          /\ UNCHANGED <<uRet, uAttempts>>
       \/ /\ uPc \in DOMAIN DataField
          /\ uData' = [uData EXCEPT ![DataField[uPc]] = pg[uPc]]
          /\ uTrace' = Append(uTrace, <<uPc, pg[uPc]>>)
          /\ uPc' = AfterLoad[uPc]
          /\ UNCHANGED <<uRet, uAttempts>>
       \/ /\ uPc = "pmc"
          /\ \E pmc \in PmcValues :
                IF PmcIndex(uData).some
                THEN /\ uData' = WithPmc(uData, pmc)
                     /\ uTrace' = uTrace \o << <<"rdpmc", pmc>>,
                                               <<"pmc_width", PageFixed.pmc_width>> >>
                ELSE UNCHANGED <<uData, uTrace>>
          /\ uPc' = AfterLoad[uPc]
          /\ UNCHANGED <<uRet, uAttempts>>
       \/ /\ uPc = "tsc"
          /\ \E cyc \in Cycles :
                IF "cap_user_time" \in uData.flags
                THEN /\ uData' = WithTsc(uData, cyc)
                     /\ uTrace' = Append(uTrace, <<"rdtsc", cyc>>)
                ELSE UNCHANGED <<uData, uTrace>>
          /\ uPc' = AfterLoad[uPc]
          /\ UNCHANGED <<uRet, uAttempts>>
       \/ /\ uPc = "finish"
          /\ IF Finish(uData, pgLock).some
             THEN /\ uRet' = Finish(uData, pgLock)
                  /\ uPc' = "idle"
                  /\ uTrace' = Append(uTrace, <<"lock", pgLock>>)
                  /\ UNCHANGED <<uData, uAttempts>>
             ELSE /\ uPc' = "lock"
                  /\ uData' = NoData
                  /\ uTrace' = <<>>
                  /\ UNCHANGED <<uRet, uAttempts>>
    /\ UNCHANGED <<pgLock, pg, kPc, kGen>>
    /\ UNCHANGED <<ringVars, bufVars, sampleVars, recordVars, waitVars,
                   cursorVars, callVars>>

\* The fields the kernel writes between its two increments of the lock.
UpdateOrder == <<"time_enabled", "time_running", "index", "offset">>

\* One store of the kernel's update of the page: the lock, the fields in
\* order, the lock again.
KernelUpdate ==
    /\ \/ /\ kPc = 0
          /\ kGen < MaxUpdates
          /\ pgLock' = pgLock + 1
          /\ kGen' = kGen + 1
          /\ kPc' = 1
          /\ UNCHANGED pg
       \/ /\ kPc \in DOMAIN UpdateOrder
          /\ pg' = [pg EXCEPT ![UpdateOrder[kPc]] =
                                  PageOf(kGen, pg.capabilities)[UpdateOrder[kPc]]]
          /\ kPc' = kPc + 1
          /\ UNCHANGED <<pgLock, kGen>>
       \/ /\ kPc = Len(UpdateOrder) + 1
          /\ pgLock' = pgLock + 1
          /\ kPc' = 0
          /\ UNCHANGED <<pg, kGen>>
    /\ UNCHANGED <<uPc, uData, uRet, uTrace, uAttempts>>
    /\ UNCHANGED <<ringVars, bufVars, sampleVars, recordVars, waitVars,
                   cursorVars, callVars>>

\* A page whose capability bits the kernel has set.
InitUser ==
    /\ RingIdle
    /\ WaitIdle
    /\ CursorIdle
    /\ CallIdle
    /\ BufIdle
    /\ SampleIdle
    /\ RecordIdle
    /\ \E caps \in Capabilities : pg = PageOf(0, caps)
    /\ pgLock = 0
    /\ kPc = 0
    /\ kGen = 0
    /\ uPc = "idle"
    /\ uData = NoData
    /\ uRet = None
    /\ uTrace = <<>>
    /\ uAttempts = 0

NextUser ==
    \/ KernelUpdate
    \/ ReadUser
    \/ ReadUserStep

SpecUser == InitUser /\ [][NextUser]_vars

(***************************************************************************)
(* UserReadData::scaled_count.  A u64 is held as its eight bytes, the      *)
(* least significant first, as in the records.  The operators below work   *)
(* on such digit sequences of any length, so that a product that leaves 64 *)
(* bits is told from one that fits.                                        *)
(***************************************************************************)
\* The i-th digit of a, 0 above its length.
Digit(a, i) == IF i <= Len(a) THEN a[i] ELSE 0

\* The digits of the number whose i-th digit sum is v[i], with c carried in.
RECURSIVE Carry(_, _)
Carry(v, c) ==
    IF Len(v) = 0
    THEN IF c = 0 THEN <<>> ELSE <<c % 256>> \o Carry(v, c \div 256)
    ELSE <<(v[1] + c) % 256>> \o Carry(Tail(v), (v[1] + c) \div 256)

\* a + b
BigAdd(a, b) ==
    Carry([i \in 1..(IF Len(a) > Len(b) THEN Len(a) ELSE Len(b)) |->
              Digit(a, i) + Digit(b, i)], 0)

\* The sum of a[i] * b[j] over i + j = k + 1, from i on.
RECURSIVE ConvSum(_, _, _, _)
ConvSum(a, b, k, i) ==
    IF i > k THEN 0
    ELSE Digit(a, i) * Digit(b, k + 1 - i) + ConvSum(a, b, k, i + 1)

\* a * b
BigMul(a, b) ==
    Carry([k \in 1..(Len(a) + Len(b)) |-> ConvSum(a, b, k, 1)], 0)

\* a < b, decided at the highest digit where they differ, from digit i down.
RECURSIVE LessAt(_, _, _)
LessAt(a, b, i) ==
    IF i = 0 THEN FALSE
    ELSE IF Digit(a, i) # Digit(b, i) THEN Digit(a, i) < Digit(b, i)
    ELSE LessAt(a, b, i - 1)

BigLess(a, b) == LessAt(a, b, IF Len(a) > Len(b) THEN Len(a) ELSE Len(b))

\* a - b for b <= a, from digit i on with a borrow.
RECURSIVE SubAt(_, _, _, _)
SubAt(a, b, i, borrow) ==
    IF i > Len(a) THEN <<>>
    ELSE <<(256 + a[i] - Digit(b, i) - borrow) % 256>>
         \o SubAt(a, b, i + 1,
                  IF a[i] - Digit(b, i) - borrow < 0 THEN 1 ELSE 0)

BigSub(a, b) == SubAt(a, b, 1, 0)

\* The largest digit q with b * q <= r, for r < 256 * b: d plus the bits
\* from `bit` down that keep the product within r.
RECURSIVE QuotDigit(_, _, _, _)
QuotDigit(r, b, d, bit) ==
    IF bit = 0 THEN d
    ELSE IF BigLess(r, BigMul(b, <<d + bit>>))
    THEN QuotDigit(r, b, d, bit \div 2)
    ELSE QuotDigit(r, b, d + bit, bit \div 2)

\* The n lowest digits of a.
Low(a, n) == [i \in 1..n |-> Digit(a, i)]

\* Long division of the digits i, i - 1, ... 1 of a by b, with r the
\* remainder that the digits above i left and q their quotient digits; d
\* is the quotient digit of position i and r1 the remainder with the digit
\* of a brought down.
RECURSIVE LongDiv(_, _, _, _, _)
DivNext(a, b, i, r1, d, q) ==
    LongDiv(a, b, i - 1, Low(BigSub(r1, BigMul(b, <<d>>)), Len(b)),
            <<d>> \o q)

LongDiv(a, b, i, r, q) ==
    IF i = 0 THEN [q |-> q, r |-> r]
    ELSE DivNext(a, b, i, <<a[i]>> \o r,
                 QuotDigit(<<a[i]>> \o r, b, 0, 128), q)

\* a / b and a % b, for b not zero.
DivMod(a, b) == LongDiv(a, b, Len(a), <<>>, <<>>)

IsZero(a) == \A i \in DOMAIN a : a[i] = 0

\* a is below 2^64.
FitsU64(a) == \A i \in DOMAIN a : i > 8 => a[i] = 0

\* a modulo 2^64, as u64
Wrap(a) == Low(a, 8)

\* The result of a u64 `*` or `+` whose exact value is x: with overflow
\* checks (a debug build) a value that leaves 64 bits is a panic, without
\* them (a release build) it wraps.
Checked(x, checks) ==
    IF checks /\ ~FitsU64(x) THEN Panic ELSE Some(Wrap(x))

\* quot * time_enabled + (rem * time_enabled) / time_running, with x and y
\* the two products.
ScaledSum(x, y, tr, checks) ==
    IF x = Panic \/ y = Panic THEN Panic
    ELSE Checked(BigAdd(x.val, DivMod(y.val, tr).q), checks)

\* The closure of scaled_count, with d the quot and rem of count by
\* time_running.
ScaledOf(d, te, tr, checks) ==
    ScaledSum(Checked(BigMul(d.q, te), checks),
              Checked(BigMul(d.r, te), checks), tr, checks)

\* UserReadData::scaled_count: None without a count, a panic when
\* time_running is 0 (division by zero) or, under overflow checks, when a
\* product or the sum leaves 64 bits.
ScaledCount(u, checks) ==
    IF ~u.value.some THEN None
    ELSE IF IsZero(u.time_running) THEN Panic
    ELSE ScaledOf(DivMod(u.value.val, u.time_running),
                  u.time_enabled, u.time_running, checks)

\* The u64 values given to scaled_count: small ones, 2^63 and u64::MAX.
ScaledWords ==
    {U64(0), U64(1), U64(2), U64(4), U64(10),
     <<0, 0, 0, 0, 0, 0, 0, 128>>, [i \in 1..8 |-> 255]}

\* read_user has returned a UserReadData.
InitScaled ==
    /\ RingIdle
    /\ WaitIdle
    /\ CursorIdle
    /\ CallIdle
    /\ BufIdle
    /\ SampleIdle
    /\ RecordIdle
    /\ pg = PageOf(0, {})
    /\ pgLock = 0
    /\ kPc = 0
    /\ kGen = 0
    /\ uPc = "idle"
    /\ uData = NoData
    /\ \E te \in ScaledWords, tr \in ScaledWords,
          v \in {None} \cup {Some(w) : w \in ScaledWords} :
          uRet = Some([time_enabled |-> te, time_running |-> tr, value |-> v])
    /\ uTrace = <<>>
    /\ uAttempts = 0

\* data.scaled_count() is called, in a build with or without overflow
\* checks.
CallScaledCount ==
    /\ call = NoCall
    /\ uRet.some
    /\ \E checks \in BOOLEAN :
          call' = [fn |-> "scaled_count", checks |-> checks,
                   ret |-> ScaledCount(uRet.val, checks)]
    /\ UNCHANGED <<gData, gFormat>>
    /\ UNCHANGED <<ringVars, bufVars, sampleVars, recordVars, waitVars,
                   userVars, cursorVars>>

NextScaled == CallScaledCount

SpecScaled == InitScaled /\ [][NextScaled]_vars

(***************************************************************************)
(* GroupData (group.rs): the words of one read of a group,                 *)
(*   [nr, time_enabled?, time_running?, (value, id?, lost?) * nr],         *)
(* and the accessors of its prefix.                                        *)
(***************************************************************************)
\* The bits of ReadFormat (PERF_FORMAT_*).
FlagBit ==
    [TOTAL_TIME_ENABLED |-> 1, TOTAL_TIME_RUNNING |-> 2, ID |-> 4,
     GROUP |-> 8, LOST |-> 16]

PrefixFlags == {"TOTAL_TIME_ENABLED", "TOTAL_TIME_RUNNING"}

\* ReadFormatExt::prefix_len
PrefixLen(rf) == 1 + Cardinality(rf \cap PrefixFlags)

\* GroupData::prefix_offset_of: the number of prefix flags of read_format
\* whose bit is below the bit of flag.
PrefixOffsetOf(rf, flag) ==
    IF flag \notin rf THEN None
    ELSE Some(Cardinality({f \in rf \cap PrefixFlags :
                              FlagBit[f] < FlagBit[flag]}))

\* .map(|idx| self.data[idx]).map(Duration::from_nanos), in nanoseconds.
DataAt(data, idx) == IF idx.some THEN Some(data[idx.val + 1]) ELSE None

\* GroupData::time_enabled
TimeEnabled(data, rf) == DataAt(data, PrefixOffsetOf(rf, "TOTAL_TIME_ENABLED"))

\* GroupData::time_running
TimeRunning(data, rf) == DataAt(data, PrefixOffsetOf(rf, "TOTAL_TIME_RUNNING"))

\* The read formats of a group and the times the kernel reports.
GroupFormats ==
    {{"GROUP"} \cup x :
        x \in SUBSET {"TOTAL_TIME_ENABLED", "TOTAL_TIME_RUNNING", "ID", "LOST"}}
EnabledTimes == {500, 700}
RunningTimes == {300, 400}

\* The words the kernel returns for a read of a group of nr counters.
GroupWords(rf, nr, te, tr) ==
    <<nr>>
    \o (IF "TOTAL_TIME_ENABLED" \in rf THEN <<te>> ELSE <<>>)
    \o (IF "TOTAL_TIME_RUNNING" \in rf THEN <<tr>> ELSE <<>>)
    \o Flat([i \in 1..nr |->
               <<10 + i>>
               \o (IF "ID" \in rf THEN <<20 + i>> ELSE <<>>)
               \o (IF "LOST" \in rf THEN <<0>> ELSE <<>>)])

InitGroup ==
    /\ RingIdle
    /\ WaitIdle
    /\ UserIdle
    /\ CursorIdle
    /\ BufIdle
    /\ SampleIdle
    /\ RecordIdle
    /\ \E rf \in GroupFormats :
       \E nr \in 1..MaxCount :
       \E te \in EnabledTimes :
       \E tr \in RunningTimes :
          /\ gFormat = rf
          /\ gData = GroupWords(rf, nr, te, tr)
    /\ call = NoCall

\* counts.time_enabled()
GetTimeEnabled ==
    /\ call = NoCall
    /\ call' = [fn |-> "time_enabled", ret |-> TimeEnabled(gData, gFormat)]
    /\ UNCHANGED <<gData, gFormat>>
    /\ UNCHANGED <<userVars, cursorVars>>
    /\ UNCHANGED <<ringVars, bufVars, sampleVars, recordVars, waitVars>>

\* counts.time_running()
GetTimeRunning ==
    /\ call = NoCall
    /\ call' = [fn |-> "time_running", ret |-> TimeRunning(gData, gFormat)]
    /\ UNCHANGED <<gData, gFormat>>
    /\ UNCHANGED <<userVars, cursorVars>>
    /\ UNCHANGED <<ringVars, bufVars, sampleVars, recordVars, waitVars>>

NextGroup == GetTimeEnabled \/ GetTimeRunning

SpecGroup == InitGroup /\ [][NextGroup]_vars

(***************************************************************************)
(* The accessors of Namespaces (samples/namespaces.rs), called on the      *)
(* event of a decoded PERF_RECORD_NAMESPACES record.                       *)
(***************************************************************************)
MaxNamespaces == 7

\* The fixed indices of the kernel's namespace array (*_NS_INDEX).
NsIndex ==
    [NET |-> 0, UTS |-> 1, IPC |-> 2, PID |-> 3, USER |-> 4, MNT |-> 5,
     CGROUP |-> 6]

\* The index constant each accessor passes to `self.namespaces.get`.
AccessorIndex ==
    [network |-> NsIndex.NET, uts |-> NsIndex.USER, ipc |-> NsIndex.IPC,
     pid |-> NsIndex.PID, user |-> NsIndex.USER, cgroup |-> NsIndex.CGROUP]

\* slice::get(index).copied()
VecGet(v, index) == IF index < Len(v) THEN Some(v[index + 1]) ELSE None

\* Namespaces::network, uts, ipc, pid, user, cgroup
NamespaceGet(namespaces, fn) == VecGet(namespaces, AccessorIndex[fn])

InitNames ==
    /\ RingIdle
    /\ WaitIdle
    /\ UserIdle
    /\ CursorIdle
    /\ CallIdle
    /\ BufIdle
    /\ SampleIdle
    /\ \E sty \in {{}, {"TID", "CPU"}} :
       \E sia \in BOOLEAN :
       \E nr \in 0..MaxNamespaces :
          LET cfg == [sample_type |-> sty, read_format |-> {},
                      sample_id_all |-> sia, branch_sample_type |-> {},
                      regs_user |-> RegsUserMask, regs_intr |-> RegsIntrMask]
              k == [nr |-> nr, pad |-> 0, cut |-> 0, extra |-> 0,
                    abi |-> 0, dyn |-> 1]
              pay == EmitRecord(RecordType.NAMESPACES, cfg, 0, k)
          IN  /\ rCfg = cfg
              /\ rKern = k
              /\ rPay = pay
              /\ rHdr = [type |-> RecordType.NAMESPACES, misc |-> 0,
                         size |-> HeaderSize + Len(pay)]
    /\ rOut = NoRecord

\* One accessor is called on the decoded Namespaces event.
GetNamespace ==
    /\ rOut # NoRecord
    /\ rOut.kind = "record"
    /\ rOut.event.kind = "Namespaces"
    /\ call = NoCall
    /\ \E fn \in DOMAIN AccessorIndex :
          call' = [fn |-> fn, ret |-> NamespaceGet(rOut.event.more, fn)]
    /\ UNCHANGED <<gData, gFormat>>
    /\ UNCHANGED <<userVars, cursorVars>>
    /\ UNCHANGED <<ringVars, bufVars, sampleVars, recordVars, waitVars>>

NextNames == ParseRecord \/ GetNamespace

SpecNames == InitNames /\ [][NextNames]_vars

(***************************************************************************)
(* A parser over the outstanding Record.  Record::parse_record hands a     *)
(* copy of the Record's ByteBuffer to the parser, which reads it through   *)
(* chunk, advance, copy_to_slice and truncate.  The ring starts with one   *)
(* record at data_tail, after the consumer released an earlier record of   *)
(* data_tail bytes.                                                        *)
(***************************************************************************)
\* Where the earlier record left data_tail, and the sizes of the record
\* the kernel wrote there.
CursorTails == {0, 16, 24}
CursorSizes == {8, 12, 16}

\* The ring and the stream after the kernel wrote a record of prev bytes
\* (none when prev = 0) and then a record of size bytes.
TwoRecords(prev, size) ==
    IF prev = 0 THEN RecordBytes(9, 0, size, 0, size)
    ELSE RecordBytes(9, 0, prev, 0, prev)
         \o RecordBytes(9, 0, size, prev, size)

InitCursor ==
    /\ WaitIdle
    /\ UserIdle
    /\ CursorIdle
    /\ CallIdle
    /\ BufIdle
    /\ SampleIdle
    /\ RecordIdle
    /\ \E prev \in CursorTails, size \in CursorSizes :
          /\ stream = TwoRecords(prev, size)
          /\ ring = RingWrite([p \in 0..(DataSize - 1) |-> 0], 0,
                              TwoRecords(prev, size))
          /\ data_tail = prev
          /\ released = prev
          /\ data_head = prev + size
    /\ rec = NoRecord
    /\ result = "none"
    /\ lastOp = "init"
    /\ forgotten = NoRecord
    /\ decoded = NotDecoded
    /\ lastDrop = NotDecoded

\* The operation went through.
CursorLive == curOp[1] \notin {"init", "panic"}

\* record.parse_record(): the parser gets a copy of record.data.
OpenCursor ==
    /\ rec # NoRecord
    /\ curOp[1] = "init"
    /\ cur' = rec.data
    /\ curOp' = <<"open", 0>>
    /\ UNCHANGED <<userVars, callVars>>
    /\ UNCHANGED <<ringVars, bufVars, sampleVars, recordVars, waitVars>>

\* buf.copy_to_slice(&mut [0; n])
CursorCopy ==
    /\ CursorLive
    /\ \E n \in 0..MaxLen :
          IF CopyOk(cur, n)
          THEN cur' = CopyRest(cur, n) /\ curOp' = <<"copy", n>>
          ELSE cur' = cur /\ curOp' = <<"panic", n>>
    /\ UNCHANGED <<userVars, callVars>>
    /\ UNCHANGED <<ringVars, bufVars, sampleVars, recordVars, waitVars>>

\* buf.truncate(n)
CursorTruncate ==
    /\ CursorLive
    /\ \E n \in 0..MaxLen :
          IF TruncateOk(cur, n)
          THEN cur' = Truncate(cur, n) /\ curOp' = <<"truncate", n>>
          ELSE cur' = cur /\ curOp' = <<"panic", n>>
    /\ UNCHANGED <<userVars, callVars>>
    /\ UNCHANGED <<ringVars, bufVars, sampleVars, recordVars, waitVars>>

\* buf.advance(n)
CursorAdvance ==
    /\ CursorLive
    /\ \E n \in 0..MaxLen :
          IF AdvanceOk(cur, n)
          THEN cur' = Advance(cur, n) /\ curOp' = <<"advance", n>>
          ELSE cur' = cur /\ curOp' = <<"panic", n>>
    /\ UNCHANGED <<userVars, callVars>>
    /\ UNCHANGED <<ringVars, bufVars, sampleVars, recordVars, waitVars>>

\* What chunk gives on a buffer: end-of-data or the length of the chunk,
\* with the length of the buffer it was called on.
ChunkOf(buf) ==
    [fn |-> "chunk",
     ret |-> IF ChunkIsEof(buf) THEN "eof" ELSE "chunk",
     chunk |-> IF ChunkIsEof(buf) THEN 0 ELSE Chunk(buf).len,
     len |-> BufLen(buf)]

\* buf.chunk()
CursorChunk ==
    /\ CursorLive
    /\ call' = ChunkOf(cur)
    /\ UNCHANGED <<cur, curOp, gData, gFormat, userVars>>
    /\ UNCHANGED <<ringVars, bufVars, sampleVars, recordVars, waitVars>>

NextCursor ==
    \/ NextRecord
    \/ OpenCursor
    \/ CursorCopy
    \/ CursorTruncate
    \/ CursorAdvance
    \/ CursorChunk

SpecCursor == InitCursor /\ [][NextCursor]_vars

(***************************************************************************)
(* The register accessors of Registers (samples/sample.rs), called on the  *)
(* user registers of a parsed sample.  A register mask is the set of its   *)
(* set bits; an XMM register takes two consecutive bits and two words.     *)
(***************************************************************************)
\* X86RegMask::AX, BX, CX and the low bits of XMM0, XMM1.
RegBits == {0, 1, 2}
XmmBits == {32, 34}

\* The masks a counter may be configured with.
RegMasks == SUBSET {0, 2, 32, 33, 34, 35}

\* (self.mask & LEADING_MASK).count_ones()
RegIndex(r, bit) == Cardinality({m \in r.mask : m < bit})

\* An index past the end of a Vec: the accessor panics.
IndexPanic == [panic |-> TRUE]

\* self.regs[index], which panics past the end of regs.
RegAt(r, index) ==
    IF index < Len(r.regs) THEN Some(r.regs[index + 1]) ELSE IndexPanic

\* A two-slot accessor that takes either bit of the register as enough.
XmmGetAnyBit(r, bit) ==
    IF {bit, bit + 1} \cap r.mask # {}
    THEN IF RegIndex(r, bit) + 1 < Len(r.regs)
         THEN Some(<<r.regs[RegIndex(r, bit) + 1], r.regs[RegIndex(r, bit) + 2]>>)
         ELSE IndexPanic
    ELSE None

\* decl_xmm_reg_accessors: lo = regs[index], hi = regs[index + 1].
XmmGet(r, bit) ==
    IF {bit, bit + 1} \subseteq r.mask
    THEN IF RegIndex(r, bit) + 1 < Len(r.regs)
         THEN Some(<<r.regs[RegIndex(r, bit) + 1], r.regs[RegIndex(r, bit) + 2]>>)
         ELSE IndexPanic
    ELSE None

\* decl_reg_accessors, with the bounds check of the index made explicit.
RegGetChecked(r, bit) ==
    IF bit \in r.mask THEN RegAt(r, RegIndex(r, bit)) ELSE None

InitRegs ==
    /\ RingIdle
    /\ WaitIdle
    /\ UserIdle
    /\ CursorIdle
    /\ CallIdle
    /\ BufIdle
    /\ RecordIdle
    /\ \E sty \in {{"REGS_USER"}, {"IP", "REGS_USER"}} :
       \E abi \in Abis :
       \E mask \in RegMasks :
          LET cfg == [sample_type |-> sty, read_format |-> {},
                      branch_sample_type |-> {},
                      regs_user |-> mask, regs_intr |-> RegsIntrMask]
              k == [nr |-> 0, abi |-> abi, dyn |-> 1, extra |-> 0]
          IN  /\ sCfg = cfg
              /\ sKern = k
              /\ sPay = EmitSample(cfg, k)
    /\ sOut = NoSample

\* The parsed sample has user registers.
HasRegs ==
    /\ sOut # NoSample
    /\ sOut.kind = "sample"
    /\ sOut.sample.regs_user.some

\* sample.regs_user.x86_ax() and the other one-slot accessors
GetReg ==
    /\ HasRegs
    /\ call = NoCall
    /\ \E bit \in RegBits :
          call' = [fn |-> "reg", bit |-> bit,
                   ret |-> RegGetChecked(sOut.sample.regs_user.val, bit)]
    /\ UNCHANGED <<gData, gFormat>>
    /\ UNCHANGED <<userVars, cursorVars>>
    /\ UNCHANGED <<ringVars, bufVars, sampleVars, recordVars, waitVars>>

\* sample.regs_user.x86_xmm0() and the other two-slot accessors
GetXmm ==
    /\ HasRegs
    /\ call = NoCall
    /\ \E bit \in XmmBits :
          call' = [fn |-> "xmm", bit |-> bit,
                   ret |-> XmmGet(sOut.sample.regs_user.val, bit)]
    /\ UNCHANGED <<gData, gFormat>>
    /\ UNCHANGED <<userVars, cursorVars>>
    /\ UNCHANGED <<ringVars, bufVars, sampleVars, recordVars, waitVars>>

NextRegs == ParseSample \/ GetReg \/ GetXmm

SpecRegs == InitRegs /\ [][NextRegs]_vars

(***************************************************************************)
(* Claims about the ring buffer consumer.                                  *)
(***************************************************************************)
\* The header the kernel wrote at absolute offset at.
StreamHeader(at) == HeaderOf(SubSeq(stream, at + 1, at + HeaderSize))

\* C1: every drop of a Record advances data_tail by exactly the record's
\* header.size, data_tail never decreases, and a Record returned by
\* next_record shows exactly the bytes the kernel wrote right after all
\* released bytes: no released byte is read again.
C1_ReleaseAdvances ==
    [][ /\ data_tail' >= data_tail
        /\ (lastOp' = "drop" /\ rec # NoRecord /\ rec' = NoRecord
              => data_tail' = data_tail + rec.header.size)
        /\ (lastOp' = "next" /\ rec = NoRecord /\ rec' # NoRecord
              => /\ rec'.header = StreamHeader(released')
                 /\ BufBytes(ring', rec'.data)
                      = SubSeq(stream', released' + HeaderSize + 1,
                               released' + rec'.header.size))
      ]_vars

\* C1 witness: a Record returned after earlier drops took the tail once
\* around the ring.
C1_Witness ==
    /\ lastOp = "next"
    /\ rec # NoRecord
    /\ released > DataSize
    /\ data_tail = released

\* C2: next_record returns None exactly when data_tail = data_head;
\* otherwise the spans it builds hold exactly the data_head - data_tail
\* unread bytes in write order, from ring offset data_tail mod data_size.
C2_WindowIsUnread ==
    /\ (NextRecordOf(ring, data_tail, data_head).kind = "none")
          <=> (data_tail = data_head)
    /\ data_tail # data_head =>
          LET w == Window(data_tail, data_head) IN
          /\ BufLen(w) = data_head - data_tail
          /\ BufBytes(ring, w) = SubSeq(stream, data_tail + 1, data_head)
          /\ w[2].off = data_tail % DataSize

\* C2 witness: a completely full ring whose window wraps.
C2_Witness ==
    /\ data_head - data_tail = DataSize
    /\ data_tail % DataSize # 0

\* C3: the view of an outstanding Record is exactly the header.size - 8
\* bytes after its header, and truncate(n) with n <= len leaves exactly the
\* first n bytes, for every window next_record can build.
TruncateLaw(w) ==
    \A n \in 0..BufLen(w) :
        /\ TruncateOk(w, n)
        /\ BufLen(Truncate(w, n)) = n
        /\ BufBytes(ring, Truncate(w, n)) = SubSeq(BufBytes(ring, w), 1, n)

C3_ViewIsPayload ==
    /\ rec # NoRecord =>
          /\ rec.header = StreamHeader(data_tail)
          /\ BufLen(rec.data) = rec.header.size - HeaderSize
          /\ BufBytes(ring, rec.data)
               = SubSeq(stream, data_tail + HeaderSize + 1,
                        data_tail + rec.header.size)
    /\ data_tail # data_head =>
          LET w == Window(data_tail, data_head) IN
          /\ TruncateLaw(w)
          /\ CopyOk(w, HeaderSize) => TruncateLaw(CopyRest(w, HeaderSize))

\* C3 witness: a Record whose payload wraps around the end of the ring and
\* is followed by another record.
C3_Witness ==
    /\ rec # NoRecord
    /\ ~IsSingle(rec.data)
    /\ data_head > data_tail + rec.header.size

\* C4: data_tail changes only in the drop of a Record; while a Record is
\* outstanding it is the only one, data_tail stays, and no byte visible
\* through it changes, whatever the kernel appends.
C4_TailOnlyOnDrop ==
    [][ /\ (data_tail' # data_tail
              => lastOp' = "drop" /\ rec # NoRecord /\ rec' = NoRecord)
        /\ (rec # NoRecord /\ rec' # NoRecord
              => /\ rec' = rec
                 /\ data_tail' = data_tail
                 /\ BufBytes(ring', rec.data) = BufBytes(ring, rec.data))
      ]_vars

\* C4 witness: the kernel filled the ring while a Record is outstanding.
C4_Witness ==
    /\ rec # NoRecord
    /\ lastOp = "append"
    /\ data_head - data_tail = DataSize
    /\ rec.header.size > HeaderSize

\* C5: after a Record is leaked with mem::forget, data_tail is as it was
\* and the next next_record returns the same header and payload bytes,
\* whatever the kernel appended in between.
C5_ForgetReturnsSame ==
    forgotten # NoRecord =>
        /\ data_tail = forgotten.tail
        /\ lastOp = "next" =>
              /\ result = "record"
              /\ rec # NoRecord
              /\ rec.header = forgotten.header
              /\ BufBytes(ring, rec.data) = forgotten.bytes

\* C5 witness: a Record returned again after a forget, with records
\* appended by the kernel in between.
C5_Witness ==
    /\ forgotten # NoRecord
    /\ lastOp = "next"
    /\ rec # NoRecord
    /\ data_head > forgotten.head
    /\ Len(forgotten.bytes) > 0

\* C6: when the header at data_tail declares less than 8 bytes,
\* next_record fails, returns no Record and leaves data_tail alone; the
\* record is never skipped, and every later call fails again.
C6_MalformedIsFatal ==
    [][ /\ (lastOp' = "next" /\ rec = NoRecord /\ data_tail # data_head
                /\ StreamHeader(data_tail).size < HeaderSize
              => /\ result' = "panic"
                 /\ rec' = NoRecord
                 /\ data_tail' = data_tail)
        /\ (result = "panic"
              => /\ data_tail' = data_tail
                 /\ rec' = NoRecord
                 /\ result' = "panic")
      ]_vars

\* C6 witness: next_record failed on a malformed header behind which the
\* kernel wrote further records.
C6_Witness ==
    /\ result = "panic"
    /\ lastOp = "next"
    /\ StreamHeader(data_tail).size < HeaderSize
    /\ data_head > data_tail + HeaderSize

(***************************************************************************)
(* Claims about ByteBuffer.                                                *)
(***************************************************************************)
\* C7: after every sequence of copy_to_slice, truncate, chunk and advance
\* applied to Split([s[..k], s[k..]]) and to Single(s), 0 <= k <= len(s),
\* the two cursors have the same remaining length, the last operation had
\* the same outcome on both (success, end-of-data or failure), and a copy
\* wrote the same bytes.
C7_SplitEqualsSingle ==
    /\ resP = resS
    /\ BufLen(bufP) = BufLen(bufS)
    /\ bufOp[1] = "copy" => outP = outS

\* C8: copy_to_slice of n <= len(a) + len(b) bytes from Split([a, b]) writes
\* the first n bytes of a followed by b and shortens the buffer by n; when
\* n > len(a) the buffer becomes the Single rest of b, when n <= len(a)
\* only the first span is shortened.  No operation lengthens the buffer.
C8_CopyOverSplit ==
    /\ BufLen(bufP) <= BufLen(prevP)
    /\ (bufOp[1] = "copy" /\ ~IsSingle(prevP) /\ bufOp[2] <= BufLen(prevP)) =>
          LET n == bufOp[2]
              a == prevP[2]
              b == prevP[3]
          IN  /\ resP = "ok"
              /\ outP = SubSeq(Bytes(mem, a) \o Bytes(mem, b), 1, n)
              /\ BufLen(bufP) = BufLen(prevP) - n
              /\ n > a.len => bufP = Single(SliceFrom(b, n - a.len))
              /\ n <= a.len => bufP = Split(SliceFrom(a, n), b)

\* C8 witness: a copy that straddled the split and left bytes of b.
C8_Witness ==
    /\ bufOp[1] = "copy"
    /\ resP = "ok"
    /\ ~IsSingle(prevP)
    /\ prevP[2].len > 1
    /\ bufOp[2] > prevP[2].len
    /\ bufOp[2] < BufLen(prevP)

\* C9: a buffer exactly exhausted by a copy, Single or Split with any span
\* lengths, ends as a zero-length Single span; on an empty buffer a copy of
\* a nonzero number of bytes fails and returns no bytes.
C9_ExhaustedIsSingle ==
    /\ (bufOp[1] = "copy" /\ resP = "ok" /\ bufOp[2] = BufLen(prevP)
            /\ bufOp[2] > 0)
          => IsSingle(bufP) /\ BufLen(bufP) = 0
    /\ (bufOp[1] = "copy" /\ resS = "ok" /\ BufLen(bufS) = 0)
          => IsSingle(bufS)
    /\ (bufOp[1] = "copy" /\ BufLen(prevP) = 0 /\ bufOp[2] > 0)
          => resP = "panic" /\ outP = <<>>

(***************************************************************************)
(* Sample::parse                                                           *)
(***************************************************************************)
\* The value the kernel emitted for a field, or None when it emitted none.
Sent(name, cfg, k) ==
    IF Emitted(name, cfg.sample_type)
    THEN Some(EmitField(name, cfg, k).val) ELSE None

\* The halves of a two-u32 field.
SentHalf(name, cfg, k, from) ==
    IF Emitted(name, cfg.sample_type)
    THEN Some(Take(EmitField(name, cfg, k).val, from, 4)) ELSE None

\* The Sample that holds each emitted field under its own name, the given
\* id, and the bytes after the last field in `extra`.
SampleOf(cfg, k, id) ==
    LET bs == Sent("BRANCH_STACK", cfg, k) IN
    [ip |-> Sent("IP", cfg, k),
     pid |-> SentHalf("TID", cfg, k, 0),
     tid |-> SentHalf("TID", cfg, k, 4),
     time |-> Sent("TIME", cfg, k),
     addr |-> Sent("ADDR", cfg, k),
     id |-> id,
     stream_id |-> Sent("STREAM_ID", cfg, k),
     cpu |-> SentHalf("CPU", cfg, k, 0),
     period |-> Sent("PERIOD", cfg, k),
     value |-> Sent("READ", cfg, k),
     callchain |-> Sent("CALLCHAIN", cfg, k),
     raw |-> Sent("RAW", cfg, k),
     lbr |-> IF bs.some THEN Some(bs.val.lbr) ELSE None,
     lbr_hw_index |-> IF bs.some THEN bs.val.hw_index ELSE None,
     regs_user |-> Sent("REGS_USER", cfg, k),
     stack_user |-> Sent("STACK_USER", cfg, k),
     weight |-> Sent("WEIGHT", cfg, k),
     data_src |-> Sent("DATA_SRC", cfg, k),
     transaction |-> Sent("TRANSACTION", cfg, k),
     regs_intr |-> Sent("REGS_INTR", cfg, k),
     phys_addr |-> Sent("PHYS_ADDR", cfg, k),
     aux |-> Sent("AUX", cfg, k),
     cgroup |-> Sent("CGROUP", cfg, k),
     data_page_size |-> Sent("DATA_PAGE_SIZE", cfg, k),
     code_page_size |-> Sent("CODE_PAGE_SIZE", cfg, k),
     extra |-> ExtraBytes(k.extra)]

\* C10 as stated: for every mask the parse reads the enabled fields in the
\* fixed order, each from the offset that is the total size of the enabled
\* fields before it; every field whose bit is unset is None, `id` included
\* (it is Some only when the ID bit is set); the bytes after the last
\* enabled field are `extra`.
C10_FixedOrderUnsetIsNone ==
    sOut # NoSample =>
        /\ sOut.kind = "sample"
        /\ sOut.sample = SampleOf(sCfg, sKern, Sent("ID", sCfg, sKern))

\* C10, amended: as above, except that `id` holds the ID field when the ID
\* bit is set and otherwise the IDENTIFIER field when the IDENTIFIER bit is
\* set (id.or(sample_id)); it is None only when both bits are unset.
C10_FixedOrder ==
    sOut # NoSample =>
        /\ sOut.kind = "sample"
        /\ sOut.sample =
              SampleOf(sCfg, sKern,
                       OrElse(Sent("ID", sCfg, sKern),
                              Sent("IDENTIFIER", sCfg, sKern)))
        /\ sCfg.sample_type = {} =>
              /\ sOut.sample.extra = sPay
              /\ \A f \in DOMAIN sOut.sample \ {"extra"} :
                    sOut.sample[f] = None

\* C10 witness: a parsed sample with every bit but ID set, nonempty arrays
\* and blobs, and bytes left after the last field.
C10_Witness ==
    /\ sOut # NoSample
    /\ sOut.kind = "sample"
    /\ sCfg.sample_type = SampleBits \ {"ID"}
    /\ sKern.nr = MaxCount
    /\ sKern.abi # 0
    /\ "GROUP" \in sCfg.read_format
    /\ "HW_INDEX" \in sCfg.branch_sample_type
    /\ sOut.sample.id.some
    /\ Len(sOut.sample.aux.val) = MaxCount
    /\ sOut.sample.extra # <<>>

(***************************************************************************)
(* Registers                                                               *)
(***************************************************************************)
\* The offset at which the kernel wrote a field: the total size of the
\* fields it wrote before it.
FieldOffset(name, cfg, k) ==
    Len(Flat([i \in 1..(Tag(name) - 1) |->
                IF Emitted(EmitOrder[i], cfg.sample_type)
                THEN EmitField(EmitOrder[i], cfg, k).bytes ELSE <<>>]))

\* The i-th lowest set bit of a register mask.
IthLowest(mask, i) ==
    CHOOSE bit \in mask : Cardinality({m \in mask : m < bit}) = i - 1

\* What C11 says of one register field r of a parsed sample.
RegsLaw(name, mask, r) ==
    LET off == FieldOffset(name, sCfg, sKern)
        abi == Take(sPay, off, 8)
    IN  /\ r.abi = abi
        /\ abi = AbiNone =>
              /\ r.regs = <<>>
              /\ r.mask = {}
              /\ \A bit \in mask : RegGet(r, bit) = None
        /\ abi # AbiNone =>
              /\ r.mask = mask
              /\ Len(r.regs) = Cardinality(mask)
              /\ \A i \in 1..Cardinality(mask) :
                    /\ r.regs[i] = Take(sPay, off + 8 * i, 8)
                    /\ RegGet(r, IthLowest(mask, i)) = Some(r.regs[i])

\* The bytes a register field takes in the record, as C11 counts them.
RegsSize(name, mask) ==
    IF Take(sPay, FieldOffset(name, sCfg, sKern), 8) = AbiNone THEN 8
    ELSE 8 + 8 * Cardinality(mask)

\* C11: parse_regs reads the 8-byte ABI tag; with the NONE tag it reads no
\* register word and gives an empty list and mask 0 whatever the configured
\* mask; otherwise it reads popcount(mask) words, the i-th being the
\* register at the i-th lowest set bit of the mask.
C11_ParseRegs ==
    (sOut # NoSample /\ sCfg.sample_type \cap {"REGS_USER", "REGS_INTR"} # {})
    =>  /\ sOut.kind = "sample"
        /\ "REGS_USER" \in sCfg.sample_type =>
              /\ RegsLaw("REGS_USER", sCfg.regs_user,
                         sOut.sample.regs_user.val)
              /\ Len(EmitField("REGS_USER", sCfg, sKern).bytes)
                    = RegsSize("REGS_USER", sCfg.regs_user)
        /\ "REGS_INTR" \in sCfg.sample_type =>
              /\ RegsLaw("REGS_INTR", sCfg.regs_intr,
                         sOut.sample.regs_intr.val)
              /\ Len(EmitField("REGS_INTR", sCfg, sKern).bytes)
                    = RegsSize("REGS_INTR", sCfg.regs_intr)
        \* no more and no fewer bytes were read: what follows is in place
        /\ sOut.sample.extra = ExtraBytes(sKern.extra)
        /\ \A f \in {"STACK_USER", "REGS_INTR", "AUX"} :
              f \in sCfg.sample_type =>
                 sOut.sample[SubField[f]] = Sent(f, sCfg, sKern)

\* C11 witness: a parsed sample with both register fields under a real ABI,
\* three user registers, and fields after them.
C11_Witness ==
    /\ sOut # NoSample
    /\ sOut.kind = "sample"
    /\ {"REGS_USER", "REGS_INTR", "AUX"} \subseteq sCfg.sample_type
    /\ sKern.abi # 0
    /\ Len(sOut.sample.regs_user.val.regs) = 3
    /\ sOut.sample.regs_user.val.mask = {0, 2, 5}
    /\ Len(sOut.sample.regs_intr.val.regs) = 1

(***************************************************************************)
(* The user stack                                                          *)
(***************************************************************************)
\* The local of Sample::parse that a field of the record fills.
LocalOf(name) ==
    IF name \in DOMAIN U64Field THEN U64Field[name] ELSE SubField[name]

\* Every field the kernel wrote after `name`, and the trailing bytes, came
\* out of the parse as written: the parse left `name` at the right byte.
RestInPlace(name) ==
    /\ sOut.sample.extra = ExtraBytes(sKern.extra)
    /\ \A i \in (Tag(name) + 1)..Len(EmitOrder) :
          sOut.sample[LocalOf(EmitOrder[i])] = Sent(EmitOrder[i], sCfg, sKern)

\* C12: with STACK_USER set the parse reads a 64-bit len and len bytes; if
\* len is 0 it reads no dynamic size and the stack is empty (8 bytes in
\* all); if len is nonzero it reads a 64-bit dyn, the stack is the first
\* min(len, dyn) bytes of the blob and the field takes 8 + len + 8 bytes.
C12_StackUser ==
    (sOut # NoSample /\ "STACK_USER" \in sCfg.sample_type) =>
        LET off == FieldOffset("STACK_USER", sCfg, sKern)
            len == AsUsize(Take(sPay, off, 8))
            blob == Take(sPay, off + 8, len)
            dyn == AsUsize(Take(sPay, off + 8 + len, 8))
            size == Len(EmitField("STACK_USER", sCfg, sKern).bytes)
            stack == sOut.sample.stack_user
        IN  /\ sOut.kind = "sample"
            /\ stack.some
            /\ len = 0 => stack.val = <<>> /\ size = 8
            /\ len # 0 =>
                  /\ stack.val = SubSeq(blob, 1, Min(len, dyn))
                  /\ size = 8 + len + 8
            /\ RestInPlace("STACK_USER")

\* C12 witness: a parsed nonempty stack cut short by its dynamic size,
\* with fields after it.
C12_Witness ==
    /\ sOut # NoSample
    /\ sOut.kind = "sample"
    /\ {"STACK_USER", "WEIGHT", "AUX"} \subseteq sCfg.sample_type
    /\ sKern.nr = 2
    /\ sKern.dyn = 1
    /\ Len(sOut.sample.stack_user.val) = 1

(***************************************************************************)
(* Record::parse                                                           *)
(***************************************************************************)
\* A record as the kernel wrote it, none of its bytes missing.
WellFormed == rKern.cut = 0

\* The event the kernel meant by the record.
SentEvent ==
    IF rHdr.type = RecordType.SAMPLE
    THEN Event("Sample",
               SampleOf(rCfg, rKern,
                        OrElse(Sent("ID", rCfg, rKern),
                               Sent("IDENTIFIER", rCfg, rKern))),
               <<>>)
    ELSE EmitEvent(KindOfType[rHdr.type], rCfg, rHdr.misc, rKern).val

\* Two events are the same event.
SameEvent(a, b) == a.kind = b.kind /\ a = b

\* The number of bytes of the sample-id trailer of the record.
TrailerSize == Len(EmitTrailer(rHdr.type, rCfg))

\* C13: a type tag that is not known gives RecordEvent::Unknown and never
\* an error, whatever the payload, and the event holds the payload bytes
\* unchanged: all of them or, as the field is documented, those before the
\* sample-id trailer; every known tag is decoded by its own decoder.
C13_UnknownNeverFails ==
    rOut # NoRecord =>
        /\ rHdr.type \notin KnownTypes =>
              /\ rOut.kind = "record"
              /\ rOut.ty = rHdr.type
              /\ \/ SameEvent(rOut.event,
                              Event("Unknown", [data |-> rPay], <<>>))
                 \/ SameEvent(rOut.event,
                              Event("Unknown",
                                    [data |-> SubSeq(rPay, 1,
                                                     Len(rPay) - TrailerSize)],
                                    <<>>))
        /\ (rHdr.type \in KnownTypes /\ WellFormed) =>
              /\ rOut.kind = "record"
              /\ rOut.ty = rHdr.type
              /\ SameEvent(rOut.event, SentEvent)

\* The sample id the kernel put in the trailer.
SentSampleId ==
    LET on(name) == rCfg.sample_id_all /\ name \in rCfg.sample_type IN
    [pid |-> IF on("TID") THEN Some(Take(TrailerWord(1), 0, 4)) ELSE None,
     tid |-> IF on("TID") THEN Some(Take(TrailerWord(1), 4, 4)) ELSE None,
     time |-> IF on("TIME") THEN Some(TrailerWord(2)) ELSE None,
     id |-> IF on("IDENTIFIER") THEN Some(TrailerWord(6))
            ELSE IF on("ID") THEN Some(TrailerWord(3)) ELSE None,
     stream_id |-> IF on("STREAM_ID") THEN Some(TrailerWord(4)) ELSE None,
     cpu |-> IF on("CPU") THEN Some(Take(TrailerWord(5), 0, 4)) ELSE None]

\* C14: for MMAP and SAMPLE no trailer is split off even with sample_id_all
\* set, and the sample id is filled from the decoded payload (pid and tid
\* for MMAP; pid, tid, time, id, stream_id and cpu for SAMPLE); for every
\* other type the last expected_size bytes are kept from the event decoder
\* and decoded as the sample-id trailer.
C14_TrailerSplit ==
    (rOut # NoRecord /\ WellFormed) =>
        /\ rOut.kind = "record"
        /\ SameEvent(rOut.event,
                     IF rHdr.type \in KnownTypes THEN SentEvent
                     ELSE Event("Unknown",
                                [data |-> SubSeq(rPay, 1,
                                                 Len(rPay) - TrailerSize)],
                                <<>>))
        /\ rHdr.type = RecordType.MMAP =>
              rOut.sample_id =
                 [pid |-> Some(rOut.event.fields.pid),
                  tid |-> Some(rOut.event.fields.tid),
                  time |-> None, id |-> None, stream_id |-> None,
                  cpu |-> None]
        /\ rHdr.type = RecordType.SAMPLE =>
              rOut.sample_id =
                 [pid |-> rOut.event.fields.pid,
                  tid |-> rOut.event.fields.tid,
                  time |-> rOut.event.fields.time,
                  id |-> rOut.event.fields.id,
                  stream_id |-> rOut.event.fields.stream_id,
                  cpu |-> rOut.event.fields.cpu]
        /\ rHdr.type \notin {RecordType.MMAP, RecordType.SAMPLE} =>
              /\ rOut.sample_id = SentSampleId
              /\ TrailerSize =
                    IF rCfg.sample_id_all
                    THEN 8 * Cardinality(rCfg.sample_type) ELSE 0

\* C14 witness: a SAMPLE record parsed under sample_id_all with every
\* sample-id bit set.
C14_Witness ==
    /\ rOut # NoRecord
    /\ rOut.kind = "record"
    /\ WellFormed
    /\ rHdr.type = RecordType.SAMPLE
    /\ rCfg.sample_id_all
    /\ Cardinality(rCfg.sample_type) = 6
    /\ rOut.sample_id.cpu.some
    /\ rOut.sample_id.id.some

\* C15: a successful Record::parse leaves no byte of the payload unread,
\* whatever the type and the configuration, also when the payload holds
\* more bytes than the event decoder reads.
C15_ConsumesAll ==
    (rOut # NoRecord /\ rOut.kind = "record") =>
        /\ rHdr.size >= HeaderSize
        /\ Len(rPay) = rHdr.size - HeaderSize
        /\ rOut.remaining = 0

\* C15 witness: a parsed LOST record that holds eight bytes the decoder
\* does not read, before a trailer.
C15_Witness ==
    /\ rOut # NoRecord
    /\ rOut.kind = "record"
    /\ WellFormed
    /\ rHdr.type = RecordType.LOST
    /\ rKern.pad = 8
    /\ TrailerSize > 0
    /\ Len(rPay) = 16 + 8 + TrailerSize

\* C16 as stated: when a decode step needs more bytes than remain, the
\* decoding ends with a parse failure given to the caller; it never panics.
C16_ShortIsError ==
    rOut # NoRecord => rOut.kind # "panic"

(***************************************************************************)
(* Claims about framing and decoding.                                      *)
(***************************************************************************)
\* The absolute offsets at which the kernel began a record, from offset at.
RECURSIVE StreamStarts(_)
StreamStarts(at) ==
    IF at + HeaderSize > Len(stream) THEN {}
    ELSE LET size == StreamHeader(at).size IN
         IF size < HeaderSize THEN {at}
         ELSE {at} \cup StreamStarts(at + size)

\* C17: when a Record is dropped, data_tail advances by exactly the record's
\* header.size whether its decoding failed, succeeded or never happened, not
\* by the number of bytes the decoder read; the next next_record then reads
\* its header where the kernel began the following record.
C17_FramingIgnoresDecode ==
    [][ lastOp' = "drop" /\ rec # NoRecord /\ rec' = NoRecord
          => /\ data_tail' = data_tail + rec.header.size
             /\ data_tail' # data_head'
                  => /\ data_tail' \in StreamStarts(0)
                     /\ LET r == NextRecordOf(ring', data_tail', data_head') IN
                        r.kind = "record"
                          => r.header = StreamHeader(data_tail + rec.header.size)
      ]_vars

\* C17 witness: a Record whose decoding failed after reading fewer bytes than
\* its payload holds was dropped, and the next call returned the record the
\* kernel wrote after it.
C17_Witness ==
    /\ lastOp = "next"
    /\ rec # NoRecord
    /\ lastDrop.kind = "failed"
    /\ lastDrop.read < rec.header.size - HeaderSize
    /\ data_tail \in StreamStarts(0)
    /\ rec.header = StreamHeader(data_tail)
    /\ data_tail > DataSize

(***************************************************************************)
(* Claims about next_blocking.                                             *)
(***************************************************************************)
\* The step returned the record at data_tail to the caller.
GaveRecord ==
    /\ nbPc' = "idle"
    /\ nbRet' = "record"
    /\ rec' = NextRecordOf(ring, data_tail, data_head)
    /\ rec'.header = StreamHeader(data_tail)
    /\ data_tail' = data_tail

\* The step returned None to the caller.
GaveNone ==
    /\ nbPc' = "idle"
    /\ nbRet' = "none"
    /\ rec' = NoRecord

\* The step left the call blocked in poll.
WaitsAgain ==
    /\ nbPc' = "poll"
    /\ nbRet' = "pending"
    /\ rec' = NoRecord

\* A record is buffered: the ring is not empty.
Buffered == data_tail # data_head

\* C18: next_blocking returns a buffered record at once; after a hang-up it
\* makes one more next_record and returns what that gives, so a record
\* buffered at hang-up time is returned; it returns None when poll timed out
\* or the deadline has passed; after readiness without hang-up it retries
\* next_record and, with nothing buffered, waits again.
C18_NextBlocking ==
    [][ /\ (lastOp' = "call" /\ Buffered) => GaveRecord
        /\ lastOp' = "poll_hup" => IF Buffered THEN GaveRecord ELSE GaveNone
        /\ lastOp' = "poll_timeout" => GaveNone
        /\ (lastOp' \in {"call", "poll_in"} /\ ~Buffered)
              => IF DeadlinePassed(nbDeadline', elapsed')
                 THEN GaveNone ELSE WaitsAgain
        /\ (lastOp' = "poll_in" /\ Buffered) => GaveRecord
      ]_vars

\* C18 witness: a record written while the call was blocked, not yet read
\* when the process exited, is returned by the call after the hang-up.
C18_Witness ==
    /\ lastOp = "poll_hup"
    /\ exited
    /\ nbPc = "idle"
    /\ nbRet = "record"
    /\ rec # NoRecord
    /\ rec.header = StreamHeader(data_tail)

\* The records the kernel wrote, by the offsets at which they begin.
RECURSIVE StreamOffsets(_)
StreamOffsets(at) ==
    IF at + HeaderSize > Len(stream) THEN <<>>
    ELSE LET size == StreamHeader(at).size IN
         IF size < HeaderSize THEN <<at>>
         ELSE <<at>> \o StreamOffsets(at + size)

\* The loop has ended: next_blocking(None) returned None.
LoopDone ==
    /\ nbPc = "idle"
    /\ nbRet = "none"
    /\ rec = NoRecord

\* C19: once the observed process has exited, so that every poll reports
\* the hang-up and the kernel writes no more, the loop over
\* next_blocking(None) ends: the call returns None although it has no
\* timeout, and then every record the kernel wrote was returned exactly
\* once, in order, and released.
C19_LoopTerminates ==
    exited ~> ( /\ LoopDone
                /\ returned = StreamOffsets(0)
                /\ data_tail = data_head
                /\ released = Len(stream) )

\* C19 witness: the loop ended after it returned records from both sides of
\* the exit, the last of them around the wrap of the ring.
C19_Witness ==
    /\ LoopDone
    /\ exited
    /\ Len(returned) >= 3
    /\ returned = StreamOffsets(0)
    /\ data_head > DataSize

\* C20: a poll that fails with EINTR is retried: the call goes on with the
\* deadline it had, returns a buffered record, returns None only if that
\* deadline has passed and otherwise polls again for the time left, and
\* never panics; a poll that fails with any other error panics and gives
\* the caller no record.
C20_InterruptedRetries ==
    [][ /\ lastOp' = "poll_eintr"
              => /\ nbDeadline' = nbDeadline
                 /\ nbRet' # "panic"
                 /\ elapsed' >= elapsed
                 /\ IF Buffered THEN GaveRecord
                    ELSE IF DeadlinePassed(nbDeadline, elapsed') THEN GaveNone
                    ELSE /\ WaitsAgain
                         /\ PollTimeout(nbDeadline', elapsed')
                              = PollTimeout(nbDeadline, elapsed')
        /\ lastOp' = "poll_error"
              => /\ nbPc' = "idle"
                 /\ nbRet' = "panic"
                 /\ rec' = NoRecord
                 /\ returned' = returned
                 /\ data_tail' = data_tail
      ]_vars

\* C20 witness: a call with a deadline polls again after an interrupted
\* poll, some of its time gone.
C20_Witness ==
    /\ lastOp = "poll_eintr"
    /\ nbPc = "poll"
    /\ nbRet = "pending"
    /\ nbDeadline.some
    /\ elapsed > 0
    /\ elapsed <= nbDeadline.val

(***************************************************************************)
(* Claims about read_user.                                                 *)
(***************************************************************************)
\* The names of the loads of a trace, in order.
LoadNames(trace) == [i \in DOMAIN trace |-> trace[i][1]]

\* The value the trace loaded for name.
Loaded(trace, name) ==
    trace[CHOOSE i \in DOMAIN trace : trace[i][1] = name][2]

\* The loads of the page an attempt makes, without those of the hardware.
PageLoads(trace) ==
    SelectSeq(LoadNames(trace),
              LAMBDA n : n \notin {"rdpmc", "pmc_width", "rdtsc"})

\* What with_tsc may add to a time.
TscDeltas ==
    {TscDelta(c) : c \in Cycles} \cup {TscDelta(ShortCycles(c)) : c \in Cycles}

\* The discipline of one attempt: the lock, the capability bits and the
\* four fields, the lock.
Discipline ==
    <<"lock", "capabilities", "time_enabled", "time_running", "index",
      "offset", "lock">>

\* C21: each attempt of read_user loads the lock first, then the capability
\* bits and the page fields (and the hardware counter and the timestamp
\* where the bits allow), then the lock again; the call returns the values
\* of the attempt only if the two loads of the lock are equal, and otherwise
\* drops all of them and starts over.
C21_Seqlock ==
    [][ /\ uTrace' # <<>>
              => /\ Len(PageLoads(uTrace')) <= Len(Discipline)
                 /\ PageLoads(uTrace')
                      = SubSeq(Discipline, 1, Len(PageLoads(uTrace')))
                 /\ \A i \in DOMAIN uTrace' :
                        uTrace'[i][1] \in {"rdpmc", "pmc_width", "rdtsc"}
                           => i > 6
        /\ (uPc = "finish" /\ uPc' # "finish")
              => IF pgLock = uData.seq
                 THEN /\ uPc' = "idle"
                      /\ uTrace'[1] = <<"lock", pgLock>>
                      /\ uTrace'[Len(uTrace')] = <<"lock", pgLock>>
                      /\ PageLoads(uTrace') = Discipline
                      /\ uRet' = Some(UserReadDataOf(uData))
                      /\ uData.enabled - Loaded(uTrace', "time_enabled")
                            \in {0} \cup TscDeltas
                      /\ uData.running - Loaded(uTrace', "time_running")
                            \in {0} \cup TscDeltas
                      /\ uData.has_pmc_value
                            => uData.count - Loaded(uTrace', "offset")
                                  \in {SignExtend(p, PageFixed.pmc_width) : p \in PmcValues}
                 ELSE /\ uPc' = "lock"
                      /\ uRet' = uRet
                      /\ uData' = NoData
                      /\ uTrace' = <<>>
        /\ (uRet' # uRet) => (uPc = "finish" /\ pgLock = uData.seq)
      ]_vars

\* C21 witness: a call dropped an attempt that the kernel's update crossed
\* and returned the values of a later one.
C21_Witness ==
    /\ uPc = "idle"
    /\ uAttempts >= 2
    /\ uRet.some
    /\ ~BigLess(uRet.val.time_enabled, U64(100))
    /\ uRet.val.value.some

\* What read_user returns from a page that holds the kernel's g-th update
\* and is not written meanwhile.
QuietData(g, caps) ==
    [NoData EXCEPT !.flags = caps,
                   !.enabled = PageOf(g, caps).time_enabled,
                   !.running = PageOf(g, caps).time_running,
                   !.index = PageOf(g, caps).index,
                   !.count = PageOf(g, caps).offset]

QuietPmc(d, pmc) == IF PmcIndex(d).some THEN WithPmc(d, pmc) ELSE d

QuietTsc(d, cyc) == IF "cap_user_time" \in d.flags THEN WithTsc(d, cyc) ELSE d

QuietRead(g, caps, pmc, cyc) ==
    UserReadDataOf(QuietTsc(QuietPmc(QuietData(g, caps), pmc), cyc))

\* C28: every UserReadData that read_user returns is made of the fields of
\* one completed update of the page, also when the attempt began while an
\* update was in progress.
C28_NoTornRead ==
    uRet.some =>
        \E g \in 0..MaxUpdates : \E pmc \in PmcValues : \E cyc \in Cycles :
            uRet.val = QuietRead(g, pg.capabilities, pmc, cyc)

\* q = floor(p / tr), for tr not zero
IsFloor(q, p, tr) ==
    /\ ~BigLess(p, BigMul(q, tr))
    /\ BigLess(p, BigMul(BigAdd(q, <<1>>), tr))

\* floor(p / tr) is a u64: p < 2^64 * tr
FloorFits(p, tr) == BigLess(p, U64(0) \o tr)

\* C30: scaled_count of a UserReadData is None exactly when the count is
\* None; for a present count it never fails, also when time_running is 0
\* or a product of the operands leaves 64 bits, and it is
\* floor(count * time_enabled / time_running) whenever that is a u64.
C30_ScaledCountTotal ==
    call.fn = "scaled_count" =>
        /\ call.ret = None <=> ~uRet.val.value.some
        /\ call.ret # Panic
        /\ (/\ uRet.val.value.some
            /\ ~IsZero(uRet.val.time_running)
            /\ FloorFits(BigMul(uRet.val.value.val, uRet.val.time_enabled),
                         uRet.val.time_running))
              => IsFloor(call.ret.val,
                         BigMul(uRet.val.value.val, uRet.val.time_enabled),
                         uRet.val.time_running)

(***************************************************************************)
(* C22: Comm::parse gives pid and tid from the first two 32-bit words and  *)
(* a name equal to all remaining payload bytes less every trailing NUL:    *)
(* the name is a prefix of the remainder, everything after it is NUL, and  *)
(* the name is empty or ends with a byte that is not NUL.  The last string *)
(* field of Mmap2, KSymbol and Cgroup records is stripped the same way.    *)
(***************************************************************************)
\* The bytes of the payload after the fixed fields and before the trailer.
StringRest ==
    SubSeq(rPay, Width(FixedFields[KindOfType[rHdr.type]]) + 1,
           Len(rPay) - Len(EmitTrailer(rHdr.type, rCfg)))

IsStripOf(name, rest) ==
    /\ Len(name) <= Len(rest)
    /\ name = SubSeq(rest, 1, Len(name))
    /\ \A i \in (Len(name) + 1)..Len(rest) : rest[i] = 0
    /\ name = <<>> \/ name[Len(name)] # 0

C22_TrailingNulStripped ==
    (rOut # NoRecord /\ rHdr.type \in StringTypes) =>
        /\ rOut.kind = "record"
        /\ rOut.event.kind = KindOfType[rHdr.type]
        /\ IsStripOf(rOut.event.more, StringRest)
        /\ rHdr.type = RecordType.COMM =>
              /\ rOut.event.fields.pid = SubSeq(rPay, 1, 4)
              /\ rOut.event.fields.tid = SubSeq(rPay, 5, 8)

\* A Comm record whose name keeps a NUL inside and loses two at its end.
C22_Witness ==
    /\ rOut # NoRecord
    /\ rOut.kind = "record"
    /\ rHdr.type = RecordType.COMM
    /\ rOut.event.more = <<0, 65>>
    /\ Len(StringRest) = 4
    /\ rCfg.sample_id_all

(***************************************************************************)
(* C23: Record::len is the total length of the record as the kernel        *)
(* declared it in the header (header.size), and is never zero for a record *)
(* that next_record returned.                                              *)
(***************************************************************************)
C23_LenIsHeaderSize ==
    rec # NoRecord =>
        /\ RecordLen(rec) = rec.header.size
        /\ RecordLen(rec) # 0

(***************************************************************************)
(* Claims about GroupData.                                                 *)
(***************************************************************************)
\* The word of the layout [nr, time_enabled?, time_running?, ...] that
\* holds the time of a flag, counted from the start of the data.
WordOfTime(rf, flag) ==
    IF flag = "TOTAL_TIME_ENABLED" THEN 2
    ELSE IF "TOTAL_TIME_ENABLED" \in rf THEN 3 ELSE 2

FlagOfCall ==
    [time_enabled |-> "TOTAL_TIME_ENABLED", time_running |-> "TOTAL_TIME_RUNNING"]

(***************************************************************************)
(* C24: for data laid out as [nr, time_enabled?, time_running?, entries],  *)
(* time_enabled returns the time_enabled word and time_running returns the *)
(* time_running word, for every combination of the two flags; each gives   *)
(* None exactly when its flag is absent, and neither gives the count nr.   *)
(***************************************************************************)
C24_PrefixTimes ==
    call.fn \in {"time_enabled", "time_running"} =>
        IF FlagOfCall[call.fn] \in gFormat
        THEN /\ call.ret = Some(gData[WordOfTime(gFormat, FlagOfCall[call.fn])])
             /\ call.ret # Some(gData[1])
        ELSE call.ret = None

(***************************************************************************)
(* Claims about the Namespaces accessors.                                  *)
(***************************************************************************)
\* The index of the namespace an accessor is named after.
OwnIndex ==
    [network |-> NsIndex.NET, uts |-> NsIndex.UTS, ipc |-> NsIndex.IPC,
     pid |-> NsIndex.PID, user |-> NsIndex.USER, cgroup |-> NsIndex.CGROUP]

\* The namespace entries the kernel wrote into the record.
KernelNamespaces == EmitEvent("Namespaces", rCfg, 0, rKern).val.more

(***************************************************************************)
(* C25: each Namespaces accessor returns the entry at the fixed index of   *)
(* the namespace it is named after (uts() the entry at the UTS index, not  *)
(* the user entry), and None when the array is too short for that index.   *)
(***************************************************************************)
C25_OwnIndex ==
    call.fn \in DOMAIN OwnIndex =>
        call.ret = IF OwnIndex[call.fn] < Len(KernelNamespaces)
                   THEN Some(KernelNamespaces[OwnIndex[call.fn] + 1])
                   ELSE None

(***************************************************************************)
(* C26: for every parse configuration SampleId::parse consumes exactly     *)
(* SampleId::expected_size(config) bytes: none, with every field None,     *)
(* when sample_id_all is unset whatever the sample_type bits; otherwise 8  *)
(* bytes per set bit among TID, TIME, ID, STREAM_ID, CPU, IDENTIFIER, read *)
(* in that order (pid then tid for TID, cpu then 4 reserved bytes for CPU).*)
(* Record::parse leaves expected_size bytes for the sample id, so the      *)
(* buffer is empty after it exactly when that many bytes were consumed.    *)
(***************************************************************************)
\* The bits of the configuration that put a word into the trailer.
TrailerBits ==
    IF rCfg.sample_id_all
    THEN rCfg.sample_type
         \cap {"TID", "TIME", "ID", "STREAM_ID", "CPU", "IDENTIFIER"}
    ELSE {}

\* The w bytes of the payload at byte `at` of the word of a bit, with the
\* words counted in the kernel's order from the start of the trailer.
TrailerBytes(bit, at, w) ==
    LET before == CASE bit = "TID" -> {}
                    [] bit = "TIME" -> {"TID"}
                    [] bit = "ID" -> {"TID", "TIME"}
                    [] bit = "STREAM_ID" -> {"TID", "TIME", "ID"}
                    [] bit = "CPU" -> {"TID", "TIME", "ID", "STREAM_ID"}
                    [] bit = "IDENTIFIER" ->
                          {"TID", "TIME", "ID", "STREAM_ID", "CPU"}
        start == Len(rPay) - 8 * Cardinality(TrailerBits)
                 + 8 * Cardinality(TrailerBits \cap before) + at
    IN  SubSeq(rPay, start + 1, start + w)

TrailerField(bit, at, w) ==
    IF bit \in TrailerBits THEN Some(TrailerBytes(bit, at, w)) ELSE None

C26_SampleIdSize ==
    (/\ rOut # NoRecord
     /\ rOut.kind = "record"
     /\ rHdr.type \notin {RecordType.MMAP, RecordType.SAMPLE}) =>
        /\ rOut.remaining = 0
        /\ rOut.sample_id.pid = TrailerField("TID", 0, 4)
        /\ rOut.sample_id.tid = TrailerField("TID", 4, 4)
        /\ rOut.sample_id.time = TrailerField("TIME", 0, 8)
        /\ rOut.sample_id.stream_id = TrailerField("STREAM_ID", 0, 8)
        /\ rOut.sample_id.cpu = TrailerField("CPU", 0, 4)
        /\ rOut.sample_id.id =
              IF "IDENTIFIER" \in TrailerBits
              THEN TrailerField("IDENTIFIER", 0, 8)
              ELSE TrailerField("ID", 0, 8)

\* A record parsed with all six bits set and sample_id_all.
C26_Witness ==
    /\ rOut # NoRecord
    /\ rOut.kind = "record"
    /\ rHdr.type = RecordType.LOST
    /\ Cardinality(TrailerBits) = 6
    /\ rOut.sample_id.cpu.some
    /\ rOut.remaining = 0

\* A record parsed with bits set and sample_id_all unset: nothing is read.
C26_WitnessUnset ==
    /\ rOut # NoRecord
    /\ rOut.kind = "record"
    /\ rHdr.type = RecordType.LOST
    /\ ~rCfg.sample_id_all
    /\ Cardinality(rCfg.sample_type) = 6
    /\ rOut.sample_id = SampleIdDefault

(***************************************************************************)
(* Claims about the parser's view of a Record.                             *)
(***************************************************************************)
(***************************************************************************)
(* C27: in every state of a ByteBuffer reached from next_record by any     *)
(* sequence of copy_to_slice, truncate and advance calls, chunk returns a  *)
(* non-empty chunk whenever len() > 0 and reports end-of-data exactly when *)
(* len() = 0.                                                              *)
(***************************************************************************)
C27_ChunkNonEmpty ==
    call.fn = "chunk" =>
        /\ call.len > 0 => (call.ret = "chunk" /\ call.chunk > 0)
        /\ call.ret = "eof" <=> call.len = 0

(***************************************************************************)
(* Claims about the register accessors.                                    *)
(***************************************************************************)
\* The word the kernel wrote for the register of bit `bit`: the words
\* follow the ABI tag in the order of the set bits of the configured mask.
KernelReg(bit) ==
    Take(sPay,
         FieldOffset("REGS_USER", sCfg, sKern)
            + 8 * (1 + Cardinality({m \in sCfg.regs_user : m < bit})),
         8)

\* The bits of the registers the kernel wrote.
KernelRegBits == IF sKern.abi = 0 THEN {} ELSE sCfg.regs_user

(***************************************************************************)
(* C29: every Registers value made by parse_regs has as many registers as  *)
(* its mask has bits; so each accessor gives None when the bit (for XMM,   *)
(* both bits) of its register is not set in the mask, and otherwise the    *)
(* value at the index that counts the set bits below the register, never   *)
(* indexing past the end of regs, also when the ABI tag was NONE.          *)
(***************************************************************************)
C29_Accessors ==
    /\ HasRegs =>
          /\ Len(sOut.sample.regs_user.val.regs)
                = Cardinality(sOut.sample.regs_user.val.mask)
          /\ sOut.sample.regs_user.val.mask = KernelRegBits
    /\ call.fn = "reg" =>
          call.ret = IF call.bit \in KernelRegBits
                     THEN Some(KernelReg(call.bit)) ELSE None
    /\ call.fn = "xmm" =>
          call.ret = IF {call.bit, call.bit + 1} \subseteq KernelRegBits
                     THEN Some(<<KernelReg(call.bit), KernelReg(call.bit + 1)>>)
                     ELSE None

\* A two-slot accessor that found its register behind two set bits, with
\* the lower XMM register half set.
C29_Witness ==
    /\ call.fn = "xmm"
    /\ call.bit = 34
    /\ sCfg.regs_user = {0, 33, 34, 35}
    /\ sKern.abi # 0
    /\ call.ret = Some(<<KernelReg(34), KernelReg(35)>>)

\* An accessor called on registers parsed under the NONE tag.
C29_WitnessNone ==
    /\ call.fn = "reg"
    /\ call.bit = 0
    /\ 0 \in sCfg.regs_user
    /\ sKern.abi = 0
    /\ call.ret = None

====
